---- MODULE Spec2Model ----
(***************************************************************************)
(* Model of the billing core of the music academy backend:                 *)
(* lessons (billing/models.py Lesson), invoices (billing/models.py         *)
(* Invoice) and the request handlers of billing/views.py that create and   *)
(* change them.                                                            *)
(*                                                                         *)
(* Money and hours are fixed-point integers: a rate or a balance is a      *)
(* number of cents (DecimalField decimal_places=2), a duration a number of *)
(* hundredths of an hour, and a product rate * duration a number of        *)
(* 1/10000 dollars.  A timestamp is unset or set.  Columns that no handler *)
(* modelled here reads back (due_date, created_by, created_at, the         *)
(* last_edited_by/last_edited_at stamp, the lesson notes and dates) are    *)
(* left out of the rows.                                                   *)
(***************************************************************************)
EXTENDS Integers, Sequences, FiniteSets, TLC

\* ------------------------------------------------------------------ bounds
MaxLessons == 2
MaxInvoices == 2
MaxBatch == 2
MaxTokens == 2
MaxDepth == 3

\* ------------------------------------------------------- program constants
\* Lesson.rate default 80.00, also the literal Lesson.save compares with
DefaultRate == 8000
\* User.hourly_rate default 80.00
DefaultHourlyRate == 8000
\* Lesson.duration default 1.0
DefaultDuration == 100
\* GlobalRateSettings defaults as the tests read them
DefaultOnlineTeacherRate == 4500
DefaultOnlineStudentRate == 6000
DefaultInpersonStudentRate == 10000

\* ------------------------------------------------------------------- users
Anon == "anon"
Null == "null"
Unset == "unset"
Management == {"m1"}
Teachers == {"t1"}
Students == {"s1", "s2"}
Users == Management \cup Teachers \cup Students
Actors == Users \cup {Anon}
Callers == Actors \ {"s2"}

\* ------------------------------------------------------------ input values
TeacherRates == {DefaultHourlyRate, 9500}
OnlineRates == {DefaultOnlineTeacherRate, 5500}
LessonTypes == {"in_person", "online"}
LESSON_STATUS == {"requested", "confirmed", "completed", "cancelled"}
INVOICE_TYPES == {"teacher_payment", "student_billing"}
STATUS_CHOICES == {"draft", "pending", "approved", "paid", "rejected", "overdue"}
LessonIds == 1..MaxLessons
InvoiceIds == 1..MaxInvoices

VARIABLES
    hourly_rate,     \* User.hourly_rate of each teacher
    global_rates,    \* the GlobalRateSettings singleton
    lessons,         \* stored Lesson rows, by primary key
    student_rate,    \* the student-facing rate the data model gives a lesson
    next_lesson,     \* next Lesson primary key
    invoices,        \* stored Invoice rows, by primary key
    next_invoice,    \* next Invoice primary key
    last,            \* the last request and its answer
    inflight,        \* the requests being handled step by step, and their locals
    assigned,        \* history: the invoice sequences stored so far this month
    users,           \* the stored User rows, by e-mail address
    approved_emails, \* the stored ApprovedEmail rows, by e-mail address
    registration_requests,  \* the stored UserRegistrationRequest rows, by e-mail address
    invitations,     \* the stored InvitationToken rows, by token
    next_token,      \* the tokens generated so far, plus one
    accounts_made,   \* history: how many User rows each token's redemptions have created
    post_delete_connected   \* whether the post_delete receiver of User is connected

vars == <<hourly_rate, global_rates, lessons, student_rate, next_lesson,
          invoices, next_invoice, last, inflight, assigned, users,
          approved_emails, registration_requests, invitations, next_token,
          accounts_made, post_delete_connected>>

accountVars == <<approved_emails, registration_requests, invitations, next_token, accounts_made,
                 post_delete_connected>>

\* ------------------------------------------------------------------ User
\* request.user of a caller: the row stored under the caller's address
user_type(u) == IF u \in DOMAIN users THEN users[u].user_type ELSE Null
is_approved(u) == u \in DOMAIN users /\ users[u].is_approved

\* User.save: a management user is stored approved and privileged
\* a save() that stores the row as it is given
UserSave_Plain(row) == row

UserSave(row) ==
    IF row.user_type = "management"
    THEN [row EXCEPT !.is_approved = TRUE, !.is_staff = TRUE, !.is_superuser = TRUE]
    ELSE row

\* a User instance with the field defaults of the model
NewUser(type) ==
    [user_type |-> type, is_approved |-> FALSE, is_staff |-> FALSE,
     is_superuser |-> FALSE]

\* the accounts there are before any request: a management user made by
\* create_superuser, an approved teacher and an approved student
InitialUsers ==
    [u \in {"m1", "t1", "s1"} |->
        UserSave([NewUser(IF u \in Management THEN "management"
                         ELSE IF u \in Teachers THEN "teacher" ELSE "student")
                    EXCEPT !.is_approved = TRUE])]

lessonVars == <<lessons, student_rate, next_lesson>>
invoiceVars == <<invoices, next_invoice>>
rateVars == <<hourly_rate, global_rates>>

\* ----------------------------------------------------------------- helpers
Put(f, k, v) == [x \in DOMAIN f \cup {k} |-> IF x = k THEN v ELSE f[x]]
Drop(f, k) == [x \in DOMAIN f \ {k} |-> f[x]]

RECURSIVE SumOver(_, _)
SumOver(S, f) ==
    IF S = {} THEN 0
    ELSE LET x == CHOOSE y \in S : TRUE
         IN f[x] + SumOver(S \ {x}, f)

\* an optional request field: Omitted, or Given(value)
Omitted == <<>>
Given(x) == <<x>>
Val(o) == o[1]

\* the answer to a request: the primary key it was about (0 for none) and
\* the request field arg the claims read
AnswerArg(op, code, id, arg) == [op |-> op, code |-> code, id |-> id, arg |-> arg]
Answer(op, code, id) == AnswerArg(op, code, id, Omitted)

\* ----------------------------------------------------- custom_auth decorators
\* a decorator that checks the role and forgets the approval
role_required_AnyApproval(actor, allowed_roles) ==
    IF actor \notin DOMAIN users THEN 401
    ELSE IF user_type(actor) \notin allowed_roles THEN 403
    ELSE 200

role_required(actor, allowed_roles) ==
    IF actor \notin DOMAIN users THEN 401
    ELSE IF user_type(actor) \notin allowed_roles THEN 403
    ELSE IF user_type(actor) # "management" /\ ~is_approved(actor) THEN 403
    ELSE 200

teacher_required(actor) == role_required(actor, {"teacher"})
management_required(actor) == role_required(actor, {"management"})
teacher_or_management_required(actor) == role_required(actor, {"teacher", "management"})

\* ------------------------------------------------------------ Rate Resolver
\* The student-facing rate of a new lesson (spec 4.1); the stored Lesson row
\* of billing/models.py has the single column rate and no such column.
ResolveStudentRate(lesson_type) ==
    IF lesson_type = "online" THEN global_rates.online_student_rate
    ELSE global_rates.inperson_student_rate

\* The teacher-side rate spec 4.1 resolves for a lesson created without one.
ResolveTeacherRate(lesson_type, teacher) ==
    IF lesson_type = "online" THEN global_rates.online_teacher_rate
    ELSE hourly_rate[teacher]

\* ------------------------------------------------------------------ Lesson
\* Lesson.save: a rate equal to 80.00 is taken for "not provided" and
\* replaced by the teacher's hourly rate when that is not 80.00.
LessonSave(l) ==
    IF l.rate = DefaultRate /\ l.teacher # Null /\ hourly_rate[l.teacher] # DefaultRate
    THEN [l EXCEPT !.rate = hourly_rate[l.teacher]]
    ELSE l

\* a Lesson instance as the model constructs it: an omitted rate is the
\* field default
NewLesson(teacher, student, lesson_type, rate, duration, status, completed) ==
    [teacher |-> teacher, student |-> student, lesson_type |-> lesson_type,
     rate |-> IF rate = Omitted THEN DefaultRate ELSE Val(rate),
     duration |-> duration, status |-> status, completed_date |-> completed]

\* Lesson.total_cost: float(rate * duration).  The product is exact in
\* 1/10000 dollars; the value returned is the binary double nearest to it,
\* which equals it only when the product is a multiple of 1/16 dollar.
ToFloat(units) == [type |-> "float", units |-> units, exact |-> units % 625 = 0]

total_cost(l) == ToFloat(l.rate * l.duration)

\* DecimalField(decimal_places=2) on save: a float or Decimal value is
\* quantized to cents, ROUND_HALF_EVEN (django format_number).
RoundHalfEven(n, d) ==
    LET q == n \div d
        r == n % d
    IN IF 2 * r < d THEN q
       ELSE IF 2 * r > d THEN q + 1
       ELSE IF q % 2 = 0 THEN q ELSE q + 1

StoreDecimal(value) == RoundHalfEven(value.units, 100)

\* sum(lesson.total_cost() for lesson in ...) over the rows S of the lesson
\* table tbl: Python's sum starts from the int 0, so an empty set gives the
\* int 0 and any other a float
SumCosts(S, tbl) ==
    IF S = {} THEN [type |-> "int", units |-> 0, exact |-> TRUE]
    ELSE [type |-> "float",
          units |-> SumOver(S, [l \in S |-> total_cost(tbl[l]).units]),
          exact |-> \A l \in S : total_cost(tbl[l]).exact]

\* ----------------------------------------------------------------- Invoice
\* Invoice.calculate_payment_balance of the stored invoice pk: over
\* self.lessons.all(), the rows the invoice is associated with in the
\* database (invs, tbl); the invoice type is not consulted
calculate_payment_balance(pk, invs, tbl) == SumCosts(invs[pk].lessons, tbl)

can_be_edited(inv) == inv.status \in {"draft", "pending"}

\* Invoice.generate_invoice_number within one month prefix.  A row holds the
\* sequence of its number; the number itself is the prefix followed by the
\* sequence formatted with {:04d}, and the query orders the rows by that
\* string.
\* the decimal digits of n
RECURSIVE Digits(_)
Digits(n) == IF n < 10 THEN <<n>> ELSE Append(Digits(n \div 10), n % 10)

\* zero padding to the width of the format
SeqWidth == 4

RECURSIVE ZeroPad(_)
ZeroPad(d) == IF Len(d) < SeqWidth THEN ZeroPad(<<0>> \o d) ELSE d

\* f"{new_seq:04d}"
FormatSeq(n) == ZeroPad(Digits(n))

\* int(invoice_number.split('-')[-1])
RECURSIVE ParseSeq(_)
ParseSeq(d) ==
    IF d = <<>> THEN 0 ELSE 10 * ParseSeq(SubSeq(d, 1, Len(d) - 1)) + d[Len(d)]

\* string order of two digit strings after the common prefix
RECURSIVE StrLess(_, _)
StrLess(x, y) ==
    IF y = <<>> THEN FALSE
    ELSE IF x = <<>> THEN TRUE
    ELSE IF Head(x) # Head(y) THEN Head(x) < Head(y)
    ELSE StrLess(Tail(x), Tail(y))

\* order_by('-invoice_number').first() over the sequences S
LastInvoiceSeq(S) ==
    CHOOSE n \in S : \A m \in S \ {n} : StrLess(FormatSeq(m), FormatSeq(n))

generate_invoice_number(invs) ==
    LET seqs == {invs[i].invoice_number : i \in DOMAIN invs} \ {0}
    IN IF seqs = {} THEN 1
       ELSE ParseSeq(FormatSeq(LastInvoiceSeq(seqs))) + 1

\* Invoice.save of the instance inv whose primary key is pk (0 before the
\* first INSERT; an invoice_number of 0 is one not set), against the database (invs, tbl); the result is the row
\* written
InvoiceSave(inv, pk, invs, tbl) ==
    LET numbered ==
            IF inv.invoice_number = 0
            THEN [inv EXCEPT !.invoice_number = generate_invoice_number(invs)]
            ELSE inv
        exclusive ==
            IF numbered.invoice_type = "teacher_payment" /\ numbered.student # Null
            THEN [numbered EXCEPT !.student = Null]
            ELSE IF numbered.invoice_type = "student_billing" /\ numbered.teacher # Null
            THEN [numbered EXCEPT !.teacher = Null]
            ELSE numbered
    IN IF pk # 0
       THEN LET calculated_total == StoreDecimal(calculate_payment_balance(pk, invs, tbl))
            IN [exclusive EXCEPT !.payment_balance = calculated_total,
                                 !.total_amount = calculated_total]
       ELSE exclusive

\* an Invoice instance with the field defaults of the model
NewInvoice(invoice_type, teacher, student, status, balance, total) ==
    [invoice_number |-> 0, invoice_type |-> invoice_type,
     teacher |-> teacher, student |-> student, lessons |-> {},
     total_amount |-> total, payment_balance |-> balance, status |-> status,
     approved_by |-> Null, approved_at |-> Null,
     rejected_by |-> Null, rejected_at |-> Null, rejection_reason |-> <<>>,
     notes |-> ""]

\* timezone.now(): a timestamp field is either unset or set
Now == "now"

\* a request that answers an error and writes nothing
Fail(code) ==
    /\ UNCHANGED <<inflight, assigned, users>>
    /\ UNCHANGED accountVars
    /\ last' = Answer("error", code, 0)
    /\ UNCHANGED <<rateVars, lessonVars, invoiceVars>>

\* the same, for an error of the view itself about row id and field arg
FailAt(op, code, id, arg) ==
    /\ UNCHANGED <<inflight, assigned, users>>
    /\ UNCHANGED accountVars
    /\ last' = AnswerArg(op, code, id, arg)
    /\ UNCHANGED <<rateVars, lessonVars, invoiceVars>>

\* ------------------------------------------------------- lesson endpoints
\* serializer.save() of a new Lesson: INSERT through Lesson.save
CreateLesson(l) ==
    /\ lessons' = Put(lessons, next_lesson, LessonSave(l))
    /\ student_rate' = Put(student_rate, next_lesson, ResolveStudentRate(l.lesson_type))
    /\ next_lesson' = next_lesson + 1

\* POST lessons/ : a teacher creates a lesson for themselves, management for
\* the teacher named in the data.  rate = Omitted is a request without a rate.
lesson_list_POST(actor, teacher, student, lesson_type, rate, duration, status) ==
    LET auth == teacher_or_management_required(actor)
        t == IF user_type(actor) = "teacher" THEN actor ELSE teacher
    IN /\ next_lesson <= MaxLessons
       /\ IF auth # 200 THEN Fail(auth)
          ELSE IF t \notin Teachers \/ student \notin Students
          THEN Fail(400)
          ELSE /\ CreateLesson(NewLesson(t, student, lesson_type, rate, duration, status, Null))
               /\ UNCHANGED <<inflight, assigned, users>>
               /\ UNCHANGED accountVars
               /\ last' = AnswerArg("lesson_list_POST", 201, next_lesson, rate)
               /\ UNCHANGED <<rateVars, invoiceVars>>

\* POST lessons/request/ : a student requests a lesson from an approved teacher
request_lesson(actor, teacher, lesson_type, rate, duration) ==
    LET auth == role_required(actor, {"student"})
    IN /\ next_lesson <= MaxLessons
       /\ IF auth # 200 THEN Fail(auth)
          ELSE IF teacher \notin Teachers \/ ~is_approved(teacher)
          THEN Fail(400)
          ELSE /\ CreateLesson(NewLesson(teacher, actor, lesson_type, rate, duration,
                                         "requested", Null))
               /\ UNCHANGED <<inflight, assigned, users>>
               /\ UNCHANGED accountVars
               /\ last' = AnswerArg("request_lesson", 201, next_lesson, rate)
               /\ UNCHANGED <<rateVars, invoiceVars>>

\* POST lessons/<id>/confirm/
confirm_lesson(actor, lesson_id) ==
    LET auth == teacher_required(actor)
    IN IF auth # 200 THEN Fail(auth)
       ELSE IF ~(/\ lesson_id \in DOMAIN lessons
                 /\ lessons[lesson_id].teacher = actor
                 /\ lessons[lesson_id].status = "requested")
       THEN Fail(404)
       ELSE /\ lessons' = [lessons EXCEPT ![lesson_id] =
                              LessonSave([@ EXCEPT !.status = "confirmed"])]
            /\ UNCHANGED <<inflight, assigned, users>>
            /\ UNCHANGED accountVars
            /\ last' = Answer("confirm_lesson", 200, lesson_id)
            /\ UNCHANGED <<rateVars, student_rate, next_lesson, invoiceVars>>

\* POST lessons/<id>/complete/
complete_lesson(actor, lesson_id) ==
    LET auth == teacher_required(actor)
    IN IF auth # 200 THEN Fail(auth)
       ELSE IF ~(/\ lesson_id \in DOMAIN lessons
                 /\ lessons[lesson_id].teacher = actor
                 /\ lessons[lesson_id].status = "confirmed")
       THEN Fail(404)
       ELSE /\ lessons' = [lessons EXCEPT ![lesson_id] =
                              LessonSave([@ EXCEPT !.status = "completed",
                                                   !.completed_date = Now])]
            /\ UNCHANGED <<inflight, assigned, users>>
            /\ UNCHANGED accountVars
            /\ last' = Answer("complete_lesson", 200, lesson_id)
            /\ UNCHANGED <<rateVars, student_rate, next_lesson, invoiceVars>>

\* PUT lessons/<pk>/ : LessonSerializer update, then Lesson.save.  A field
\* given as Unset is left out of the request and keeps its stored value.
lesson_detail_PUT(actor, pk, rate, duration, status) ==
    LET auth == teacher_or_management_required(actor)
    IN IF auth # 200 THEN Fail(auth)
       ELSE IF ~(/\ pk \in DOMAIN lessons
                 /\ user_type(actor) = "teacher" => lessons[pk].teacher = actor)
       THEN Fail(404)
       ELSE /\ lessons' = [lessons EXCEPT ![pk] =
                              LessonSave([@ EXCEPT
                                  !.teacher = IF user_type(actor) = "teacher" THEN actor ELSE @,
                                  !.rate = IF rate = Omitted THEN @ ELSE Val(rate),
                                  !.duration = IF duration = Omitted THEN @ ELSE Val(duration),
                                  !.status = IF status = Unset THEN @ ELSE status])]
            /\ UNCHANGED <<inflight, assigned, users>>
            /\ UNCHANGED accountVars
            /\ last' = AnswerArg("lesson_detail_PUT", 200, pk, rate)
            /\ UNCHANGED <<rateVars, student_rate, next_lesson, invoiceVars>>

\* DELETE lessons/<pk>/ : the row and its invoice associations go (the
\* many-to-many rows cascade); no invoice is saved
lesson_detail_DELETE(actor, pk) ==
    LET auth == teacher_or_management_required(actor)
    IN IF auth # 200 THEN Fail(auth)
       ELSE IF ~(/\ pk \in DOMAIN lessons
                 /\ user_type(actor) = "teacher" => lessons[pk].teacher = actor)
       THEN Fail(404)
       ELSE /\ lessons' = Drop(lessons, pk)
            /\ student_rate' = Drop(student_rate, pk)
            /\ invoices' = [i \in DOMAIN invoices |->
                               [invoices[i] EXCEPT !.lessons = @ \ {pk}]]
            /\ UNCHANGED <<inflight, assigned, users>>
            /\ UNCHANGED accountVars
            /\ last' = Answer("lesson_detail_DELETE", 204, pk)
            /\ UNCHANGED <<rateVars, next_lesson, next_invoice>>

\* PUT teachers/<pk>/ with a new hourly_rate: the teacher themselves or
\* management (UserSerializer lists hourly_rate among its fields)
\* UserSerializer(instance, data).save(): the fields the request gives are
\* set on the row, the others keep their value, and the row is saved
SerializerUpdate(row, type, approved) ==
    UserSave([row EXCEPT !.user_type = IF type = Omitted THEN @ ELSE type[1],
                         !.is_approved = IF approved = Omitted THEN @ ELSE approved[1]])

teacher_detail_PUT(actor, pk, rate, type, approved) ==
    IF user_type(pk) # "teacher" THEN Fail(404)
    ELSE IF actor \notin DOMAIN users THEN Fail(401)
    ELSE IF actor # pk /\ user_type(actor) # "management"
    THEN Fail(403)
    ELSE /\ hourly_rate' = IF pk \in DOMAIN hourly_rate
                           THEN [hourly_rate EXCEPT ![pk] = rate]
                           ELSE hourly_rate
         /\ users' = [users EXCEPT ![pk] = SerializerUpdate(@, type, approved)]
         /\ UNCHANGED <<inflight, assigned>>
         /\ UNCHANGED accountVars
         /\ last' = AnswerArg("teacher_detail_PUT", 200, 0, <<pk, actor>>)
         /\ UNCHANGED <<global_rates, lessonVars, invoiceVars>>

\* PATCH of the GlobalRateSettings singleton by management
global_rate_settings_PATCH(actor, rate) ==
    LET auth == management_required(actor)
    IN IF auth # 200 THEN Fail(auth)
       ELSE /\ global_rates' = [global_rates EXCEPT !.online_teacher_rate = rate]
            /\ UNCHANGED <<inflight, assigned, users>>
            /\ UNCHANGED accountVars
            /\ last' = Answer("global_rate_settings_PATCH", 200, 0)
            /\ UNCHANGED <<hourly_rate, lessonVars, invoiceVars>>

\* ------------------------------------------------------ invoice endpoints
\* POST invoices/teacher/ : InvoiceSerializer (fields = '__all__') creates a
\* teacher_payment invoice from the request: status, payment_balance,
\* approved_by and approved_at are taken as sent; lessons is required and
\* may not be empty.  The row is inserted by Invoice.save without a primary
\* key, then the lessons are set.
teacher_invoice_list_POST(actor, teacher, status, lessons_in, balance, approved_by) ==
    LET auth == teacher_or_management_required(actor)
        t == IF user_type(actor) = "teacher" THEN actor ELSE teacher
        inv == [NewInvoice("teacher_payment", t, Null,
                           IF status = Unset THEN "draft" ELSE status, balance, 0)
                   EXCEPT !.approved_by = approved_by,
                          !.approved_at = IF approved_by = Null THEN Null ELSE Now]
    IN /\ next_invoice <= MaxInvoices
       /\ IF auth # 200 THEN Fail(auth)
          ELSE IF lessons_in = {} \/ ~(lessons_in \subseteq DOMAIN lessons)
          THEN Fail(400)
          ELSE /\ invoices' = Put(invoices, next_invoice,
                                  [InvoiceSave(inv, 0, invoices, lessons)
                                      EXCEPT !.lessons = lessons_in])
               /\ next_invoice' = next_invoice + 1
               /\ assigned' = assigned \cup {generate_invoice_number(invoices)}
               /\ UNCHANGED <<inflight, users>>
               /\ UNCHANGED accountVars
               /\ last' = Answer("teacher_invoice_list_POST", 201, next_invoice)
               /\ UNCHANGED <<rateVars, lessonVars>>

\* the invoice a teacher_or_management request may see: any for management,
\* the teacher's own for a teacher
VisibleInvoice(actor, pk) ==
    /\ pk \in DOMAIN invoices
    /\ user_type(actor) = "teacher" => invoices[pk].teacher = actor

\* PUT invoices/<pk>/ : InvoiceSerializer update.  The fields of the request
\* are set on the instance, Invoice.save writes it (recomputing the balance
\* from the lessons associated so far), and only then the lessons are set.
\* The status of the invoice is not consulted.
invoice_detail_PUT(actor, pk, status, lessons_in, balance, notes) ==
    LET auth == teacher_or_management_required(actor)
    IN IF auth # 200 THEN Fail(auth)
       ELSE IF ~VisibleInvoice(actor, pk) THEN Fail(404)
       ELSE IF lessons_in = {} \/ ~(lessons_in \subseteq DOMAIN lessons)
       THEN Fail(400)
       ELSE LET inv == [invoices[pk] EXCEPT
                           !.teacher = IF user_type(actor) = "teacher" THEN actor ELSE @,
                           !.status = IF status = Unset THEN @ ELSE status,
                           !.payment_balance = balance,
                           !.notes = IF notes = Unset THEN @ ELSE notes]
            IN /\ invoices' = [invoices EXCEPT ![pk] =
                                  [InvoiceSave(inv, pk, invoices, lessons)
                                      EXCEPT !.lessons = lessons_in]]
               /\ UNCHANGED <<inflight, assigned, users>>
               /\ UNCHANGED accountVars
               /\ last' = Answer("invoice_detail_PUT", 200, pk)
               /\ UNCHANGED <<rateVars, lessonVars, next_invoice>>

\* DELETE invoices/<pk>/
invoice_detail_DELETE(actor, pk) ==
    LET auth == teacher_or_management_required(actor)
    IN IF auth # 200 THEN Fail(auth)
       ELSE IF ~VisibleInvoice(actor, pk) THEN Fail(404)
       ELSE /\ invoices' = Drop(invoices, pk)
            /\ UNCHANGED <<inflight, assigned, users>>
            /\ UNCHANGED accountVars
            /\ last' = Answer("invoice_detail_DELETE", 204, pk)
            /\ UNCHANGED <<rateVars, lessonVars, next_invoice>>

\* POST invoices/teacher/<id>/approve/ : the status of the invoice is not
\* consulted
approve_teacher_invoice(actor, invoice_id) ==
    LET auth == management_required(actor)
    IN IF auth # 200 THEN Fail(auth)
       ELSE IF ~(/\ invoice_id \in DOMAIN invoices
                 /\ invoices[invoice_id].invoice_type = "teacher_payment")
       THEN Fail(404)
       ELSE /\ invoices' = [invoices EXCEPT ![invoice_id] =
                               InvoiceSave([@ EXCEPT !.status = "approved",
                                                     !.approved_by = actor,
                                                     !.approved_at = Now],
                                           invoice_id, invoices, lessons)]
            /\ UNCHANGED <<inflight, assigned, users>>
            /\ UNCHANGED accountVars
            /\ last' = Answer("approve_teacher_invoice", 200, invoice_id)
            /\ UNCHANGED <<rateVars, lessonVars, next_invoice>>

\* PUT management/invoices/<pk>/update/ : DetailedInvoiceSerializer, partial;
\* lessons is read-only there.  A field given as Unset (Omitted for the
\* balance) is not in the request.
management_update_invoice(actor, pk, status, balance, notes) ==
    LET auth == management_required(actor)
    IN IF auth # 200 THEN Fail(auth)
       ELSE IF pk \notin DOMAIN invoices THEN Fail(404)
       ELSE IF ~can_be_edited(invoices[pk])
       THEN FailAt("management_update_invoice", 400, pk, Omitted)
       ELSE LET inv == [invoices[pk] EXCEPT
                           !.status = IF status = Unset THEN @ ELSE status,
                           !.payment_balance = IF balance = Omitted THEN @ ELSE Val(balance),
                           !.notes = IF notes = Unset THEN @ ELSE notes]
            IN /\ invoices' = [invoices EXCEPT ![pk] =
                                  InvoiceSave(inv, pk, invoices, lessons)]
               /\ UNCHANGED <<inflight, assigned, users>>
               /\ UNCHANGED accountVars
               /\ last' = Answer("management_update_invoice", 200, pk)
               /\ UNCHANGED <<rateVars, lessonVars, next_invoice>>

\* PUT management/invoices/<pk>/status/
management_update_invoice_status(actor, pk, new_status) ==
    LET auth == management_required(actor)
    IN IF auth # 200 THEN Fail(auth)
       ELSE IF pk \notin DOMAIN invoices
       THEN Fail(404)
       ELSE IF new_status \notin STATUS_CHOICES
       THEN Fail(400)
       ELSE LET inv == [invoices[pk] EXCEPT
                           !.status = new_status,
                           !.approved_by = IF new_status = "approved" THEN actor ELSE @,
                           !.approved_at = IF new_status = "approved" THEN Now ELSE @]
            IN /\ invoices' = [invoices EXCEPT ![pk] =
                                  InvoiceSave(inv, pk, invoices, lessons)]
               /\ UNCHANGED <<inflight, assigned, users>>
               /\ UNCHANGED accountVars
               /\ last' = Answer("management_update_invoice_status", 200, pk)
               /\ UNCHANGED <<rateVars, lessonVars, next_invoice>>

\* management_recalculate_invoice that computes the balance and answers
\* without saving the invoice
management_recalculate_invoice_NotSaved(actor, pk) ==
    LET auth == management_required(actor)
    IN IF auth # 200 THEN Fail(auth)
       ELSE IF pk \notin DOMAIN invoices
       THEN Fail(404)
       ELSE IF ~can_be_edited(invoices[pk])
       THEN FailAt("management_recalculate_invoice", 400, pk, Omitted)
       ELSE /\ UNCHANGED <<inflight, assigned, users>>
            /\ UNCHANGED accountVars
            /\ last' = Answer("management_recalculate_invoice", 200, pk)
            /\ UNCHANGED <<rateVars, lessonVars, invoiceVars>>

\* POST management/invoices/<pk>/recalculate/
management_recalculate_invoice(actor, pk) ==
    LET auth == management_required(actor)
    IN IF auth # 200 THEN Fail(auth)
       ELSE IF pk \notin DOMAIN invoices
       THEN Fail(404)
       ELSE IF ~can_be_edited(invoices[pk])
       THEN FailAt("management_recalculate_invoice", 400, pk, Omitted)
       ELSE LET inv == [invoices[pk] EXCEPT
                           !.payment_balance =
                               StoreDecimal(calculate_payment_balance(pk, invoices, lessons))]
            IN /\ invoices' = [invoices EXCEPT ![pk] =
                                  InvoiceSave(inv, pk, invoices, lessons)]
               /\ UNCHANGED <<inflight, assigned, users>>
               /\ UNCHANGED accountVars
               /\ last' = Answer("management_recalculate_invoice", 200, pk)
               /\ UNCHANGED <<rateVars, lessonVars, next_invoice>>

\* A reason text is a sequence of characters; " " is whitespace.
\* str.lstrip(), str.rstrip() and str.strip()
RECURSIVE LStrip(_)
LStrip(s) == IF s # <<>> /\ Head(s) = " " THEN LStrip(Tail(s)) ELSE s

RECURSIVE RStrip(_)
RStrip(s) ==
    IF s # <<>> /\ s[Len(s)] = " " THEN RStrip(SubSeq(s, 1, Len(s) - 1)) ELSE s

Strip(s) == RStrip(LStrip(s))

\* request.data.get('rejection_reason', ''): the text sent, '' when the key
\* is missing
GetReason(reason) == IF reason = Omitted THEN <<>> ELSE Val(reason)

\* management_reject_invoice without the check of the current status
management_reject_invoice_NoStatusCheck(actor, pk, reason) ==
    LET auth == management_required(actor)
        rejection_reason == Strip(GetReason(reason))
    IN IF auth # 200 THEN Fail(auth)
       ELSE IF pk \notin DOMAIN invoices THEN Fail(404)
       ELSE IF rejection_reason = <<>>
       THEN FailAt("management_reject_invoice", 400, pk, reason)
       ELSE LET inv == [invoices[pk] EXCEPT
                           !.status = "rejected",
                           !.rejected_by = actor,
                           !.rejected_at = Now,
                           !.rejection_reason = rejection_reason]
            IN /\ invoices' = [invoices EXCEPT ![pk] =
                                  InvoiceSave(inv, pk, invoices, lessons)]
               /\ UNCHANGED <<inflight, assigned, users>>
               /\ UNCHANGED accountVars
               /\ last' = AnswerArg("management_reject_invoice", 200, pk, reason)
               /\ UNCHANGED <<rateVars, lessonVars, next_invoice>>

\* POST management/invoices/<pk>/reject/ ; reason is Omitted or Given(text)
management_reject_invoice(actor, pk, reason) ==
    LET auth == management_required(actor)
        rejection_reason == Strip(GetReason(reason))
    IN IF auth # 200 THEN Fail(auth)
       ELSE IF pk \notin DOMAIN invoices THEN Fail(404)
       ELSE IF rejection_reason = <<>>
       THEN FailAt("management_reject_invoice", 400, pk, reason)
       ELSE IF invoices[pk].status \notin {"pending", "draft"}
       THEN FailAt("management_reject_invoice", 400, pk, reason)
       ELSE LET inv == [invoices[pk] EXCEPT
                           !.status = "rejected",
                           !.rejected_by = actor,
                           !.rejected_at = Now,
                           !.rejection_reason = rejection_reason]
            IN /\ invoices' = [invoices EXCEPT ![pk] =
                                  InvoiceSave(inv, pk, invoices, lessons)]
               /\ UNCHANGED <<inflight, assigned, users>>
               /\ UNCHANGED accountVars
               /\ last' = AnswerArg("management_reject_invoice", 200, pk, reason)
               /\ UNCHANGED <<rateVars, lessonVars, next_invoice>>

\* ------------------------------------------- submit_lessons_for_invoice
\* An entry of the lessons list: the student it resolves to (NoName for an
\* entry without student_name and student_email), its duration and its rate
\* (Omitted: the teacher's hourly rate is passed).
NoName == "noname"

\* A duration as DecimalField.to_python reads the JSON value: a number of
\* hundredths of an hour, or a value that is no number (to_python raises).
Decimal(n) == [valid |-> TRUE, value |-> n]
NotDecimal == [valid |-> FALSE, value |-> 0]

\* User.objects.get_or_create(email=..., user_type='student', defaults=...)
\* with is_approved True among the defaults
GetOrCreateStudent(tbl, email) ==
    IF email \in DOMAIN tbl /\ tbl[email].user_type = "student" THEN tbl
    ELSE Put(tbl, email, UserSave([NewUser("student") EXCEPT !.is_approved = TRUE]))

\* The loop over lessons_data from entry i on, against lesson table tbl and
\* the accounts stored so far: each entry gets or creates its student and
\* inserts a Lesson through Lesson.save.  An entry without a name raises
\* before the student is looked up (None has no lower()); one whose duration
\* is no number raises in Lesson.objects.create, after get_or_create stored
\* the student.  The rows inserted before the failure stay, for the view
\* opens no transaction.  Nothing else about an entry is checked.
RECURSIVE CreateLessons(_, _, _, _, _, _)
CreateLessons(actor, batch, i, tbl, created, accounts) ==
    IF i > Len(batch)
    THEN [ok |-> TRUE, tbl |-> tbl, created |-> created, users |-> accounts]
    ELSE IF batch[i].student = NoName
    THEN [ok |-> FALSE, tbl |-> tbl, created |-> created, users |-> accounts]
    ELSE IF ~batch[i].duration.valid
    THEN [ok |-> FALSE, tbl |-> tbl, created |-> created,
          users |-> GetOrCreateStudent(accounts, batch[i].student)]
    ELSE LET e == batch[i]
             rate == IF e.rate = Omitted THEN hourly_rate[actor] ELSE Val(e.rate)
             l == NewLesson(actor, e.student, "in_person", Given(rate),
                            e.duration.value, "completed", Now)
             pk == next_lesson + Len(created)
         IN CreateLessons(actor, batch, i + 1, Put(tbl, pk, LessonSave(l)),
                          Append(created, pk), GetOrCreateStudent(accounts, e.student))

\* the distinct students of the created lessons, in order of first occurrence
RECURSIVE StudentsInOrder(_, _, _)
StudentsInOrder(created, tbl, seen) ==
    IF created = <<>> THEN <<>>
    ELSE LET st == tbl[Head(created)].student
         IN IF st \in seen THEN StudentsInOrder(Tail(created), tbl, seen)
            ELSE <<st>> \o StudentsInOrder(Tail(created), tbl, seen \cup {st})

\* the same loop, were every student's invoice to carry the whole batch
RECURSIVE CreateStudentInvoices_WholeBatch(_, _, _, _, _)
CreateStudentInvoices_WholeBatch(actor, sts, created, tbl, invs) ==
    IF sts = <<>> THEN invs
    ELSE LET student_total == StoreDecimal(SumCosts(created, tbl))
             inv == NewInvoice("student_billing", Null, Head(sts), "pending",
                               student_total, student_total)
             pk == next_invoice + Cardinality(DOMAIN invs \ DOMAIN invoices)
             row == [InvoiceSave(inv, 0, invs, tbl) EXCEPT !.lessons = created]
         IN CreateStudentInvoices_WholeBatch(actor, Tail(sts), created, tbl,
                                             Put(invs, pk, row))

\* the student_billing invoices, one INSERT per student: the balance is
\* summed over that student's lessons before the row is created
RECURSIVE CreateStudentInvoices(_, _, _, _, _)
CreateStudentInvoices(actor, sts, created, tbl, invs) ==
    IF sts = <<>> THEN invs
    ELSE LET student_lessons == {l \in created : tbl[l].student = Head(sts)}
             student_total == StoreDecimal(SumCosts(student_lessons, tbl))
             inv == NewInvoice("student_billing", Null, Head(sts), "pending",
                               student_total, student_total)
             pk == next_invoice + Cardinality(DOMAIN invs \ DOMAIN invoices)
             row == [InvoiceSave(inv, 0, invs, tbl) EXCEPT !.lessons = student_lessons]
         IN CreateStudentInvoices(actor, Tail(sts), created, tbl, Put(invs, pk, row))

SeqToSet(q) == {q[i] : i \in 1..Len(q)}

\* "if not lessons_data": the list is empty (or its key is missing)
NoLessonsProvided_Never(lessons_data) == FALSE
NoLessonsProvided(lessons_data) == lessons_data = <<>>

\* Whether the outcome of InvoiceProcessor.generate_and_send_invoice leaves
\* the inner try block of the view as an exception: a False result is only
\* logged, and "except Exception" catches whatever is raised.
PdfStepEscapes_Uncaught(pdf) == pdf = "raised"
PdfStepEscapes(pdf) == FALSE

\* POST invoices/teacher/submit-lessons/ ; pdf is what the PDF/e-mail step
\* does ("sent", "failed" or "raised"), which the answer does not depend on
submit_lessons_for_invoice(actor, batch, pdf) ==
    LET auth == teacher_required(actor)
        made == CreateLessons(actor, batch, 1, lessons, <<>>, users)
        created == SeqToSet(made.created)
        sts == StudentsInOrder(made.created, made.tbl, {})
        \* Invoice.objects.create(...): INSERT without a primary key
        inserted == InvoiceSave(NewInvoice("teacher_payment", actor, Null, "pending", 0, 0),
                                0, invoices, made.tbl)
        \* invoice.lessons.set(created_lessons)
        invs1 == Put(invoices, next_invoice, [inserted EXCEPT !.lessons = created])
        \* the balance is computed, assigned and saved
        calculated_total == StoreDecimal(calculate_payment_balance(next_invoice, invs1, made.tbl))
        invs2 == [invs1 EXCEPT ![next_invoice] =
                     InvoiceSave([@ EXCEPT !.payment_balance = calculated_total,
                                           !.total_amount = calculated_total],
                                 next_invoice, invs1, made.tbl)]
        invs3 == CreateStudentInvoices(actor, sts, created, made.tbl, invs2)
    IN /\ next_lesson + Len(batch) - 1 <= MaxLessons
       /\ (auth = 200 /\ batch # <<>> /\ made.ok) => next_invoice + 1 <= MaxInvoices
       /\ IF auth # 200 THEN Fail(auth)
          ELSE IF NoLessonsProvided(batch)
          THEN FailAt("submit_lessons_for_invoice", 400, 0, Given("No lessons provided"))
          ELSE /\ lessons' = made.tbl
               /\ users' = made.users
               /\ student_rate' = [l \in DOMAIN made.tbl |->
                                      IF l \in DOMAIN student_rate THEN student_rate[l]
                                      ELSE ResolveStudentRate(made.tbl[l].lesson_type)]
               /\ next_lesson' = next_lesson + Len(made.created)
               /\ UNCHANGED rateVars
               /\ IF ~made.ok
                  THEN /\ UNCHANGED <<inflight, assigned>>
                       /\ UNCHANGED accountVars
                       /\ last' = Answer("submit_lessons_for_invoice", 500, 0)
                       /\ UNCHANGED invoiceVars
                  ELSE /\ invoices' = invs3
                       /\ next_invoice' = next_invoice + 1 + Len(sts)
                       /\ assigned' = assigned \cup
                             {invs3[i].invoice_number : i \in DOMAIN invs3 \ DOMAIN invoices}
                       /\ UNCHANGED inflight
                       /\ UNCHANGED accountVars
                       /\ last' = AnswerArg("submit_lessons_for_invoice",
                                            IF PdfStepEscapes(pdf) THEN 500 ELSE 201,
                                            next_invoice, Given(pdf))

\* ------------------------------------------------------ accounts
\* the addresses requests name: the accounts of Init and one newcomer
Addresses == {"m1", "t1", "s1", "e1"}
UserTypes == {"management", "teacher", "student"}

\* the request's user as the view sees it: Anon carries no valid token
Authenticated(actor) == actor \in DOMAIN users

\* every handler of this section leaves the billing tables alone
BillingUnchanged ==
    UNCHANGED <<rateVars, lessonVars, invoiceVars, inflight, assigned>>

\* the same for a request handled in steps
BillingUnchangedBut ==
    UNCHANGED <<rateVars, lessonVars, invoiceVars, assigned>>

\* UserManager.create_user(email, user_type=..., is_approved=...): the row is
\* built with the model's defaults for what the call leaves out and saved;
\* an address already stored violates the unique constraint
CreatedUser(type, approved) ==
    UserSave([NewUser(type) EXCEPT !.is_approved = IF approved = Omitted THEN @ ELSE approved[1]])

create_user(email, type, approved) ==
    IF email \in DOMAIN users
    THEN FailAt("create_user", 500, 0, <<email, approved>>)
    ELSE /\ users' = Put(users, email, CreatedUser(type, approved))
         /\ last' = AnswerArg("create_user", 201, 0, <<email, approved>>)
         /\ BillingUnchanged
         /\ UNCHANGED accountVars

\* A view wrapped in @role_required(*allowed_roles), as the permission tests
\* wrap one. The view answers with the status `view'; the outcome tells
\* the response's status and how many times the view body has run.
RoleRequiredResponse(actor, allowed_roles, view) ==
    LET check == role_required(actor, allowed_roles)
    IN IF check # 200
       THEN [status_code |-> check, runs |-> 0]
       ELSE [status_code |-> view, runs |-> 1]

role_required_view(actor, allowed_roles, view) ==
    LET response == RoleRequiredResponse(actor, allowed_roles, view)
    IN /\ last' = AnswerArg("role_required_view", response.status_code, 0,
                            <<actor, allowed_roles, response.runs>>)
       /\ BillingUnchanged
       /\ UNCHANGED users
       /\ UNCHANGED accountVars

\* A view wrapped in @owns_resource_or_management(resource_field). The
\* wrapper first calls the role-checked view and looks at its response, and
\* calls the view again when it lets the request through; `first' and
\* `second' are the statuses the view answers with on its first and on
\* its second run (request.resource_owner is set before the second only).
OwnsResourceResponse(actor, resource_field, first, second) ==
    LET response == RoleRequiredResponse(actor, UserTypes, first)
    IN IF response.status_code # 200 THEN response
       ELSE IF user_type(actor) = "management"
       THEN [status_code |-> second, runs |-> response.runs + 1]
       ELSE IF resource_field = user_type(actor)
       THEN [status_code |-> second, runs |-> response.runs + 1]
       ELSE [status_code |-> 403, runs |-> response.runs]

owns_resource_or_management_view(actor, resource_field, first, second) ==
    LET response == OwnsResourceResponse(actor, resource_field, first, second)
    IN /\ last' = AnswerArg("owns_resource_or_management_view", response.status_code, 0,
                            <<actor, resource_field, response.runs>>)
       /\ BillingUnchanged
       /\ UNCHANGED users
       /\ UNCHANGED accountVars

\* PUT students/<pk>/
student_detail_PUT(actor, pk, type, approved) ==
    LET auth == role_required(actor, {"student", "management"})
    IN IF auth # 200 THEN Fail(auth)
       ELSE IF ~(/\ user_type(pk) = "student"
                 /\ user_type(actor) # "management" => pk = actor)
       THEN Fail(404)
       ELSE /\ users' = [users EXCEPT ![pk] = SerializerUpdate(@, type, approved)]
            /\ last' = AnswerArg("student_detail_PUT", 200, 0, <<pk, actor>>)
            /\ BillingUnchanged
            /\ UNCHANGED accountVars

\* POST teachers/ : management creates an approved teacher
teacher_list_POST(actor, email) ==
    IF ~Authenticated(actor) \/ user_type(actor) # "management"
    THEN FailAt("teacher_list_POST", 403, 0, Given(email))
    ELSE IF email \in DOMAIN users
    THEN FailAt("teacher_list_POST", 400, 0, Given(email))
    ELSE /\ users' = Put(users, email, UserSave([NewUser("teacher") EXCEPT !.is_approved = TRUE]))
         /\ last' = AnswerArg("teacher_list_POST", 201, 0, Given(email))
         /\ BillingUnchanged
         /\ UNCHANGED accountVars

\* POST teachers/<teacher_id>/approve/
approve_teacher(actor, teacher_id) ==
    LET auth == management_required(actor)
    IN IF auth # 200 THEN Fail(auth)
       ELSE IF user_type(teacher_id) # "teacher"
       THEN FailAt("approve_teacher", 404, 0, Given(teacher_id))
       ELSE /\ users' = [users EXCEPT ![teacher_id] = UserSave([@ EXCEPT !.is_approved = TRUE])]
            /\ last' = AnswerArg("approve_teacher", 200, 0, <<teacher_id, actor>>)
            /\ BillingUnchanged
            /\ UNCHANGED accountVars

\* generate_invitation_token: a fresh token for the approved e-mail
NewInvitation(email, type) ==
    [email |-> email, user_type |-> type, approved_email |-> email,
     is_used |-> FALSE, expired |-> FALSE]

\* POST management/approved-emails/ : the address is pre-approved and an
\* invitation token is generated for it (the e-mail that carries the token
\* may fail to be sent, which the view reports in the body only)
approved_email_list_POST(actor, email, type) ==
    LET auth == management_required(actor)
    IN /\ (auth = 200 /\ email \notin DOMAIN approved_emails) => next_token <= MaxTokens
       /\ IF auth # 200 THEN Fail(auth)
          ELSE IF email \in DOMAIN approved_emails
          THEN FailAt("approved_email_list_POST", 400, 0, Given(email))
          ELSE /\ approved_emails' =
                      Put(approved_emails, email, [user_type |-> type, approved_by |-> actor])
               /\ invitations' = Put(invitations, next_token, NewInvitation(email, type))
               /\ next_token' = next_token + 1
               /\ last' = AnswerArg("approved_email_list_POST", 201, 0, Given(email))
               /\ BillingUnchanged
               /\ UNCHANGED <<users, registration_requests, accounts_made,
                              post_delete_connected>>

\* one more User row created by a redemption of the token
Made(made, token) ==
    Put(made, token, IF token \in DOMAIN made THEN made[token] + 1 ELSE 1)

\* InvitationToken.is_valid
is_valid(t) == ~invitations[t].is_used /\ ~invitations[t].expired

\* the clock passes the expires_at of an invitation
InvitationExpires(t) ==
    /\ t \in DOMAIN invitations
    /\ ~invitations[t].expired
    /\ invitations' = [invitations EXCEPT ![t].expired = TRUE]
    /\ BillingUnchanged
    /\ UNCHANGED <<users, last, approved_emails, registration_requests, next_token, accounts_made,
                   post_delete_connected>>

\* UserManager.create_user followed by the view's approval: the row is
\* saved once with the model's default is_approved, then saved approved
InvitedUser(type) ==
    UserSave([UserSave(NewUser(type)) EXCEPT !.is_approved = TRUE])

\* POST auth/setup-account/<token>/
setup_account_with_invitation(token, named) ==
    IF token \notin DOMAIN invitations
    THEN FailAt("setup_account_with_invitation", 404, token, Omitted)
    ELSE IF ~is_valid(token)
    THEN FailAt("setup_account_with_invitation", 400, token, Omitted)
    ELSE IF invitations[token].email \in DOMAIN users
    THEN FailAt("setup_account_with_invitation", 400, token, Given("exists"))
    ELSE IF ~named
    THEN FailAt("setup_account_with_invitation", 400, token, Given("names"))
    ELSE /\ users' = Put(users, invitations[token].email,
                         InvitedUser(invitations[token].user_type))
         /\ invitations' = [invitations EXCEPT ![token].is_used = TRUE]
         /\ last' = AnswerArg("setup_account_with_invitation", 201, token,
                              Given(invitations[token].email))
         /\ BillingUnchanged
         /\ accounts_made' = Made(accounts_made, token)
         /\ UNCHANGED <<approved_emails, registration_requests, next_token,
                        post_delete_connected>>

\* POST auth/register/ : nobody is logged in; the request names an address
\* and a user type (a password and names too, taken as given and valid)
register_with_email(email, type) ==
    IF type \notin {"teacher", "student"}
    THEN FailAt("register_with_email", 400, 0, Given(email))
    ELSE IF email \in DOMAIN users
    THEN FailAt("register_with_email", 400, 0, Given(email))
    ELSE IF email \in DOMAIN approved_emails
    THEN /\ users' = Put(users, email,
                         UserSave([NewUser(approved_emails[email].user_type)
                                       EXCEPT !.is_approved = TRUE]))
         /\ last' = AnswerArg("register_with_email", 201, 0, Given(email))
         /\ BillingUnchanged
         /\ UNCHANGED accountVars
    ELSE IF email \in DOMAIN registration_requests
    THEN IF registration_requests[email].status = "approved"
         THEN /\ users' = Put(users, email,
                              UserSave([NewUser(registration_requests[email].user_type)
                                            EXCEPT !.is_approved = TRUE]))
              /\ last' = AnswerArg("register_with_email", 201, 0, Given(email))
              /\ BillingUnchanged
              /\ UNCHANGED accountVars
         ELSE FailAt("register_with_email", 403, 0, Given(email))
    ELSE /\ registration_requests' =
                Put(registration_requests, email, [status |-> "pending", user_type |-> type])
         /\ last' = AnswerArg("register_with_email", 202, 0, Given(email))
         /\ BillingUnchanged
         /\ UNCHANGED <<users, approved_emails, invitations, next_token, accounts_made,
                        post_delete_connected>>

\* POST management/registration-requests/<pk>/approve/ and .../reject/
review_registration_request(actor, pk, verdict) ==
    LET auth == management_required(actor)
    IN IF auth # 200 THEN Fail(auth)
       ELSE IF pk \notin DOMAIN registration_requests
       THEN FailAt("review_registration_request", 404, 0, Given(pk))
       ELSE IF registration_requests[pk].status # "pending"
       THEN FailAt("review_registration_request", 400, 0, Given(pk))
       ELSE /\ registration_requests' = [registration_requests EXCEPT ![pk].status = verdict]
            /\ last' = AnswerArg("review_registration_request", 200, 0, Given(pk))
            /\ BillingUnchanged
            /\ UNCHANGED <<users, approved_emails, invitations, next_token, accounts_made,
                           post_delete_connected>>

\* ------------------------------------------------------ deleting accounts
Without(f, S) == [x \in DOMAIN f \ S |-> f[x]]

\* the database rows and the signal registry a deletion works on; ok is
\* FALSE once the nesting of delete() calls has exceeded the interpreter's
\* recursion limit (RecursionError)
Db ==
    [users |-> users, approved_emails |-> approved_emails,
     registration_requests |-> registration_requests, invitations |-> invitations,
     connected |-> post_delete_connected, ok |-> TRUE]

RECURSIVE UserDelete(_, _, _)
RECURSIVE ApprovedEmailDelete(_, _, _)
RECURSIVE PreDeleteAll(_, _, _)

\* pre_delete receiver of ApprovedEmail: the User of that address is deleted
\* with the post_delete receiver disconnected, then the registration requests
delete_user_on_approved_email_delete(db, email, depth) ==
    LET after == IF email \in DOMAIN db.users
                 THEN LET d == UserDelete([db EXCEPT !.connected = FALSE], email, depth + 1)
                      IN IF d.ok THEN [d EXCEPT !.connected = TRUE] ELSE d
                 ELSE db
    IN IF ~after.ok THEN after
       ELSE [after EXCEPT !.registration_requests = Without(@, {email})]

\* post_delete receiver of User: the ApprovedEmail of that address is
\* deleted, then the registration requests
delete_approved_email_on_user_delete(db, email, depth) ==
    LET after == IF email \in DOMAIN db.approved_emails
                 THEN ApprovedEmailDelete(db, email, depth + 1)
                 ELSE db
    IN IF ~after.ok THEN after
       ELSE [after EXCEPT !.registration_requests = Without(@, {email})]

\* the pre_delete signal sent for each collected ApprovedEmail in turn
PreDeleteAll(db, emails, depth) ==
    IF emails = {} \/ ~db.ok THEN db
    ELSE LET e == CHOOSE x \in emails : TRUE
         IN PreDeleteAll(delete_user_on_approved_email_delete(db, e, depth),
                         emails \ {e}, depth)

\* user.delete(): the rows that cascade are collected (the ApprovedEmail
\* rows approved_by the user, on_delete=CASCADE, and their tokens),
\* pre_delete is sent for each of them, the rows are deleted, and post_delete
\* is sent for the user if its receiver is connected then
UserDelete(db, u, depth) ==
    IF depth > MaxDepth THEN [db EXCEPT !.ok = FALSE]
    ELSE LET cascade == {e \in DOMAIN db.approved_emails :
                            db.approved_emails[e].approved_by = u}
             sent == PreDeleteAll(db, cascade, depth)
         IN IF ~sent.ok THEN sent
            ELSE LET gone == [sent EXCEPT
                                 !.users = Without(@, {u}),
                                 !.approved_emails = Without(@, cascade),
                                 !.invitations =
                                     Without(@, {t \in DOMAIN @ : @[t].approved_email \in cascade})]
                 IN IF gone.connected
                    THEN delete_approved_email_on_user_delete(gone, u, depth)
                    ELSE gone

\* approved_email.delete(): pre_delete is sent, then the row and its tokens
\* (on_delete=CASCADE) are deleted
ApprovedEmailDelete(db, email, depth) ==
    IF depth > MaxDepth THEN [db EXCEPT !.ok = FALSE]
    ELSE LET sent == delete_user_on_approved_email_delete(db, email, depth)
         IN IF ~sent.ok THEN sent
            ELSE [sent EXCEPT
                     !.approved_emails = Without(@, {email}),
                     !.invitations = Without(@, {t \in DOMAIN @ : @[t].approved_email = email})]

\* The outcome of a delete() a view has called: the rows as the deletion
\* left them, with the lessons and invoices of deleted users gone too
\* (on_delete=CASCADE); or, when the deletion raised, the rows as they
\* were (the transaction is rolled back) and the signal registry as the
\* receivers left it.
Deleted(res, op, code, arg) ==
    IF res.ok
    THEN LET keptL == {l \in DOMAIN lessons : /\ lessons[l].teacher \in DOMAIN res.users
                                              /\ lessons[l].student \in DOMAIN res.users}
             keptI == {i \in DOMAIN invoices :
                          /\ invoices[i].teacher \in DOMAIN res.users \cup {Null}
                          /\ invoices[i].student \in DOMAIN res.users \cup {Null}}
         IN /\ users' = res.users
            /\ approved_emails' = res.approved_emails
            /\ registration_requests' = res.registration_requests
            /\ invitations' = res.invitations
            /\ post_delete_connected' = res.connected
            /\ lessons' = [l \in keptL |-> lessons[l]]
            /\ student_rate' = [l \in keptL \cap DOMAIN student_rate |-> student_rate[l]]
            /\ invoices' = [i \in keptI |-> [invoices[i] EXCEPT !.lessons = @ \cap keptL]]
            /\ last' = AnswerArg(op, code, 0, arg)
            /\ UNCHANGED <<rateVars, next_lesson, next_invoice, inflight, assigned, next_token,
                           accounts_made>>
    ELSE /\ post_delete_connected' = res.connected
         /\ last' = AnswerArg(op, 500, 0, arg)
         /\ UNCHANGED <<rateVars, lessonVars, invoiceVars, inflight, assigned, users,
                        approved_emails, registration_requests, invitations, next_token,
                        accounts_made>>

\* DELETE management/users/<pk>/
management_delete_user(actor, pk) ==
    LET auth == management_required(actor)
    IN IF auth # 200 THEN Fail(auth)
       ELSE IF pk \notin DOMAIN users
       THEN FailAt("management_delete_user", 404, 0, Given(pk))
       ELSE IF pk = actor \/ users[pk].user_type = "management"
       THEN FailAt("management_delete_user", 400, 0, Given(pk))
       ELSE Deleted(UserDelete(Db, pk, 1), "management_delete_user", 200, Given(pk))

\* DELETE management/approved-emails/<pk>/
approved_email_delete(actor, pk) ==
    LET auth == management_required(actor)
    IN IF auth # 200 THEN Fail(auth)
       ELSE IF pk \notin DOMAIN approved_emails
       THEN FailAt("approved_email_delete", 404, 0, Given(pk))
       ELSE Deleted(ApprovedEmailDelete(Db, pk, 1), "approved_email_delete", 204, Given(pk))

\* DELETE teachers/<pk>/
teacher_detail_DELETE(actor, pk) ==
    IF user_type(pk) # "teacher" THEN Fail(404)
    ELSE IF user_type(actor) # "management"
    THEN FailAt("teacher_detail_DELETE", 403, 0, Given(pk))
    ELSE Deleted(UserDelete(Db, pk, 1), "teacher_detail_DELETE", 204, Given(pk))

\* DELETE students/<pk>/
student_detail_DELETE(actor, pk) ==
    LET auth == role_required(actor, {"student", "management"})
    IN IF auth # 200 THEN Fail(auth)
       ELSE IF ~(/\ user_type(pk) = "student"
                 /\ user_type(actor) # "management" => pk = actor)
       THEN Fail(404)
       ELSE IF user_type(actor) # "management"
       THEN FailAt("student_detail_DELETE", 403, 0, Given(pk))
       ELSE Deleted(UserDelete(Db, pk, 1), "student_detail_DELETE", 204, Given(pk))

\* ------------------------------------------------------ requests in flight
\* Two requests a server handles at the same time.  A request the model
\* handles in one step never shows here.
Requests == {"r1", "r2"}
NoRequest ==
    [pc |-> "idle", number |-> 0, invoice |-> 0, created |-> {}, code |-> 0,
     op |-> "", copy |-> Omitted, token |-> 0]

\* submit_lessons_for_invoice handled statement by statement, as the server
\* runs it beside another request: the view opens no transaction and takes
\* no lock, so each query commits on its own.
SetRequest(r, rec) == inflight' = [inflight EXCEPT ![r] = rec]

StoredNumbers == {invoices[i].invoice_number : i \in DOMAIN invoices}

\* the loop that creates the lessons of the batch
SubmitCreateLessons(r, actor, batch) ==
    /\ inflight[r].pc = "idle"
    /\ LET made == CreateLessons(actor, batch, 1, lessons, <<>>, users)
       IN /\ lessons' = made.tbl
          /\ users' = made.users
          /\ student_rate' = [l \in DOMAIN made.tbl |->
                                 IF l \in DOMAIN student_rate THEN student_rate[l]
                                 ELSE ResolveStudentRate(made.tbl[l].lesson_type)]
          /\ next_lesson' = next_lesson + Len(made.created)
          /\ SetRequest(r, [inflight[r] EXCEPT !.pc = "teacher_number",
                                               !.created = SeqToSet(made.created)])
    /\ UNCHANGED <<rateVars, invoiceVars, last, accountVars, assigned>>

\* Invoice.save of a new invoice, first half: generate_invoice_number reads
\* the last invoice of the month
SubmitGenerateNumber(r) ==
    /\ inflight[r].pc \in {"teacher_number", "student_number"}
    /\ SetRequest(r, [inflight[r] EXCEPT
                         !.pc = IF @ = "teacher_number" THEN "teacher_insert"
                                ELSE "student_insert",
                         !.number = generate_invoice_number(invoices)])
    /\ UNCHANGED <<rateVars, lessonVars, invoiceVars, last, accountVars, assigned, users>>

\* the unique constraint on invoice_number refuses the INSERT: the
\* IntegrityError reaches the except clause of the view, which answers 500
SubmitIntegrityError(r) ==
    /\ SetRequest(r, [inflight[r] EXCEPT !.pc = "done", !.code = 500])
    /\ UNCHANGED accountVars
    /\ last' = Answer("submit_lessons_for_invoice", 500, 0)
    /\ UNCHANGED <<rateVars, lessonVars, invoiceVars, assigned, users>>

\* Invoice.save of the new teacher_payment invoice, second half: the INSERT
SubmitInsertTeacherInvoice(r, actor) ==
    /\ inflight[r].pc = "teacher_insert"
    /\ IF inflight[r].number \in StoredNumbers
       THEN SubmitIntegrityError(r)
       ELSE LET inv == [NewInvoice("teacher_payment", actor, Null, "pending", 0, 0)
                           EXCEPT !.invoice_number = inflight[r].number]
            IN /\ invoices' = Put(invoices, next_invoice,
                                  InvoiceSave(inv, 0, invoices, lessons))
               /\ next_invoice' = next_invoice + 1
               /\ SetRequest(r, [inflight[r] EXCEPT !.pc = "teacher_total",
                                                    !.invoice = next_invoice])
               /\ assigned' = assigned \cup {inflight[r].number}
               /\ UNCHANGED <<rateVars, lessonVars, last, accountVars, users>>

\* invoice.lessons.set(created_lessons), the balance computed, assigned and
\* saved
SubmitTeacherTotal(r) ==
    /\ inflight[r].pc = "teacher_total"
    /\ LET pk == inflight[r].invoice
           invs1 == [invoices EXCEPT ![pk].lessons = inflight[r].created]
           calculated_total == StoreDecimal(calculate_payment_balance(pk, invs1, lessons))
       IN invoices' = [invs1 EXCEPT ![pk] =
                          InvoiceSave([@ EXCEPT !.payment_balance = calculated_total,
                                                !.total_amount = calculated_total],
                                      pk, invs1, lessons)]
    /\ SetRequest(r, [inflight[r] EXCEPT !.pc = "student_number"])
    /\ UNCHANGED <<rateVars, lessonVars, next_invoice, last, accountVars, assigned, users>>

\* the INSERT of the student_billing invoice of the student of the batch,
\* and the setting of its lessons
SubmitInsertStudentInvoice(r) ==
    /\ inflight[r].pc = "student_insert"
    /\ IF inflight[r].number \in StoredNumbers
       THEN SubmitIntegrityError(r)
       ELSE LET student_lessons == inflight[r].created
                student == lessons[CHOOSE l \in student_lessons : TRUE].student
                student_total == StoreDecimal(SumCosts(student_lessons, lessons))
                inv == [NewInvoice("student_billing", Null, student, "pending",
                                   student_total, student_total)
                           EXCEPT !.invoice_number = inflight[r].number]
            IN /\ invoices' = Put(invoices, next_invoice,
                                  [InvoiceSave(inv, 0, invoices, lessons)
                                      EXCEPT !.lessons = student_lessons])
               /\ next_invoice' = next_invoice + 1
               /\ SetRequest(r, [inflight[r] EXCEPT !.pc = "respond"])
               /\ assigned' = assigned \cup {inflight[r].number}
               /\ UNCHANGED <<rateVars, lessonVars, last, accountVars, users>>

\* the PDF and e-mail step and the answer
SubmitRespond(r) ==
    /\ inflight[r].pc = "respond"
    /\ SetRequest(r, [inflight[r] EXCEPT !.pc = "done", !.code = 201])
    /\ UNCHANGED accountVars
    /\ last' = AnswerArg("submit_lessons_for_invoice", 201, inflight[r].invoice,
                         Given("sent"))
    /\ UNCHANGED <<rateVars, lessonVars, invoiceVars, assigned, users>>

\* The management requests on one invoice handled statement by statement:
\* each view reads the row into an object (Invoice.objects.get), checks it,
\* changes fields of the object and saves it, and save() writes every
\* column of the object.  No view opens a transaction or locks the row.
StatusOps == {"approve_teacher_invoice", "management_reject_invoice"}
EditOps == {"management_recalculate_invoice", "management_update_invoice"}

\* the check each view makes on the row it has read
Refused(op, inv) ==
    CASE op = "approve_teacher_invoice" -> FALSE
      [] op = "management_reject_invoice" -> inv.status \notin {"pending", "draft"}
      [] OTHER -> ~can_be_edited(inv)

InvoiceLoad(r, actor, op, pk) ==
    /\ inflight[r].pc \in {"idle", "done"}
    /\ management_required(actor) = 200
    /\ IF ~(/\ pk \in DOMAIN invoices
            /\ op = "approve_teacher_invoice"
               => invoices[pk].invoice_type = "teacher_payment")
       THEN /\ SetRequest(r, [NoRequest EXCEPT !.pc = "done", !.op = op, !.code = 404])
            /\ last' = Answer(op, 404, 0)
       ELSE IF Refused(op, invoices[pk])
       THEN /\ SetRequest(r, [NoRequest EXCEPT !.pc = "done", !.op = op, !.code = 400])
            /\ last' = Answer(op, 400, pk)
       ELSE /\ SetRequest(r, [NoRequest EXCEPT !.pc = "loaded", !.op = op,
                                                 !.invoice = pk,
                                                 !.copy = Given(invoices[pk])])
            /\ UNCHANGED last
    /\ UNCHANGED <<rateVars, lessonVars, invoiceVars, accountVars, assigned, users>>

\* the fields the view sets on the object it has read
Changed(op, actor, inv, pk) ==
    CASE op = "approve_teacher_invoice" ->
             [inv EXCEPT !.status = "approved", !.approved_by = actor, !.approved_at = Now]
      [] op = "management_reject_invoice" ->
             [inv EXCEPT !.status = "rejected", !.rejected_by = actor,
                         !.rejected_at = Now, !.rejection_reason = <<"l">>]
      [] op = "management_recalculate_invoice" ->
             [inv EXCEPT !.payment_balance =
                             StoreDecimal(calculate_payment_balance(pk, invoices, lessons))]
      [] OTHER -> [inv EXCEPT !.notes = "checked"]

InvoiceStore(r, actor) ==
    /\ inflight[r].pc = "loaded"
    /\ LET pk == inflight[r].invoice
           op == inflight[r].op
       IN /\ invoices' = [invoices EXCEPT ![pk] =
                             InvoiceSave(Changed(op, actor, Val(inflight[r].copy), pk),
                                         pk, invoices, lessons)]
          /\ SetRequest(r, [NoRequest EXCEPT !.pc = "done", !.code = 200])
          /\ last' = AnswerArg(op, 200, pk, Given(r))
    /\ UNCHANGED <<rateVars, lessonVars, next_invoice, accountVars, assigned, users>>

\* setup_account_with_invitation handled statement by statement beside
\* other requests: the view opens no transaction, so the reads, the INSERT
\* of create_user, the second save and mark_as_used commit one by one.
SetupCheck(r, token, named) ==
    /\ inflight[r].pc \in {"idle", "done"}
    /\ LET refuse(code) ==
               /\ SetRequest(r, [NoRequest EXCEPT !.pc = "done", !.token = token,
                                                  !.code = code])
               /\ last' = AnswerArg("setup_account_with_invitation", code, token, Given(r))
       IN IF token \notin DOMAIN invitations THEN refuse(404)
          ELSE IF ~is_valid(token) \/ invitations[token].email \in DOMAIN users \/ ~named
          THEN refuse(400)
          ELSE /\ SetRequest(r, [NoRequest EXCEPT !.pc = "setup_create", !.token = token,
                                                  !.copy = Given(invitations[token])])
               /\ UNCHANGED last
    /\ BillingUnchangedBut
    /\ UNCHANGED <<users, accountVars>>

\* create_user: the INSERT; the unique constraint on the e-mail address
\* refuses a second row (IntegrityError, which the view does not catch)
SetupCreateUser(r) ==
    /\ inflight[r].pc = "setup_create"
    /\ LET invitation == Val(inflight[r].copy)
       IN IF invitation.email \in DOMAIN users
          THEN /\ SetRequest(r, [NoRequest EXCEPT !.pc = "done", !.token = inflight[r].token,
                                                  !.code = 500])
               /\ last' = AnswerArg("setup_account_with_invitation", 500,
                                    inflight[r].token, Given(r))
               /\ UNCHANGED <<users, accounts_made>>
          ELSE /\ users' = Put(users, invitation.email, UserSave(NewUser(invitation.user_type)))
               /\ accounts_made' = Made(accounts_made, inflight[r].token)
               /\ SetRequest(r, [inflight[r] EXCEPT !.pc = "setup_approve"])
               /\ UNCHANGED last
    /\ BillingUnchangedBut
    /\ UNCHANGED <<approved_emails, registration_requests, invitations, next_token,
                   post_delete_connected>>

\* user.is_approved = True; user.save(): every column of the object is
\* written, and a row that has been deleted meanwhile is inserted again
SetupApprove(r) ==
    /\ inflight[r].pc = "setup_approve"
    /\ LET invitation == Val(inflight[r].copy)
       IN users' = Put(users, invitation.email, InvitedUser(invitation.user_type))
    /\ SetRequest(r, [inflight[r] EXCEPT !.pc = "setup_mark"])
    /\ BillingUnchangedBut
    /\ UNCHANGED <<last, accountVars>>

\* invitation.mark_as_used() and the answer; when the row has been deleted
\* meanwhile its ApprovedEmail is gone too, and the INSERT that save() falls
\* back to violates the foreign key (IntegrityError)
SetupMarkUsed(r) ==
    /\ inflight[r].pc = "setup_mark"
    /\ LET token == inflight[r].token
       IN IF token \in DOMAIN invitations
          THEN /\ invitations' = [invitations EXCEPT ![token].is_used = TRUE]
               /\ SetRequest(r, [NoRequest EXCEPT !.pc = "done", !.token = token, !.code = 201])
               /\ last' = AnswerArg("setup_account_with_invitation", 201, token, Given(r))
          ELSE /\ UNCHANGED invitations
               /\ SetRequest(r, [NoRequest EXCEPT !.pc = "done", !.token = token, !.code = 500])
               /\ last' = AnswerArg("setup_account_with_invitation", 500, token, Given(r))
    /\ BillingUnchangedBut
    /\ UNCHANGED <<users, approved_emails, registration_requests, next_token, accounts_made,
                   post_delete_connected>>

\* ------------------------------------------------------------ initial state
\* the database after the migrations and the creation of the accounts
Init ==
    /\ hourly_rate = [t \in Teachers |-> DefaultHourlyRate]
    /\ global_rates = [online_teacher_rate |-> DefaultOnlineTeacherRate,
                       online_student_rate |-> DefaultOnlineStudentRate,
                       inperson_student_rate |-> DefaultInpersonStudentRate]
    /\ lessons = <<>>
    /\ student_rate = <<>>
    /\ next_lesson = 1
    /\ invoices = <<>>
    /\ next_invoice = 1
    /\ last = Answer("init", 0, 0)
    /\ inflight = [r \in Requests |-> NoRequest]
    /\ assigned = StoredNumbers
    /\ users = InitialUsers
    /\ approved_emails = <<>>
    /\ registration_requests = <<>>
    /\ invitations = <<>>
    /\ next_token = 1
    /\ accounts_made = <<>>
    /\ post_delete_connected = TRUE

\* --------------------------------------------- lessons and the rate settings
NextRate ==
    \/ \E a \in Actors, t \in Teachers \cup {Unset}, s \in {"s1"}, ty \in LessonTypes,
          r \in {Omitted, Given(5000)}, st \in {"requested"} :
          lesson_list_POST(a, t, s, ty, r, DefaultDuration, st)
    \/ \E a \in Actors \ {"s2"}, t \in Teachers, ty \in LessonTypes,
          r \in {Omitted, Given(5000)} :
          request_lesson(a, t, ty, r, DefaultDuration)
    \/ \E a \in Actors, id \in LessonIds : confirm_lesson(a, id)
    \/ \E a \in Actors, id \in LessonIds : complete_lesson(a, id)
    \/ \E a \in Actors, id \in LessonIds, r \in {Omitted, Given(DefaultRate)},
          st \in {Unset, "cancelled"} :
          lesson_detail_PUT(a, id, r, Omitted, st)
    \/ \E a \in Actors, id \in LessonIds : lesson_detail_DELETE(a, id)
    \/ \E a \in Actors, t \in Teachers, r \in TeacherRates : teacher_detail_PUT(a, t, r, Omitted, Omitted)
    \/ \E a \in Actors, r \in OnlineRates : global_rate_settings_PATCH(a, r)

SpecRate == Init /\ [][NextRate]_vars

\* ------------------------------------------------- invoices and their content
Entries == [student : {"s1", NoName}, duration : {Decimal(DefaultDuration)},
            rate : {Omitted}]
Batches == {<<>>} \cup UNION {[1..n -> Entries] : n \in 1..MaxBatch}
PdfOutcomes == {"sent", "failed", "raised"}
ReasonTexts == {<<>>, <<" ", " ">>, <<"l">>, <<" ", "l", " ">>}
Reasons == {Omitted} \cup {Given(t) : t \in ReasonTexts}

Next ==
    \/ \E a \in Callers, b \in Batches, pdf \in {"sent"} :
          submit_lessons_for_invoice(a, b, pdf)
    \/ \E a \in Callers, ls \in SUBSET LessonIds, bal \in {0, 5000} :
          teacher_invoice_list_POST(a, "t1", "pending", ls, bal, Null)
    \/ \E a \in Callers, pk \in InvoiceIds, ls \in SUBSET LessonIds,
          nt \in {Unset, "checked"} :
          invoice_detail_PUT(a, pk, Unset, ls, 0, nt)
    \/ \E a \in Callers, pk \in InvoiceIds : approve_teacher_invoice(a, pk)
    \/ \E a \in Callers, pk \in InvoiceIds, bal \in {Omitted, Given(5000)},
          nt \in {Unset, "checked"} :
          management_update_invoice(a, pk, Unset, bal, nt)
    \/ \E a \in Callers, pk \in InvoiceIds : management_recalculate_invoice(a, pk)
    \/ \E a \in Callers, pk \in LessonIds, d \in {Given(150)} :
          lesson_detail_PUT(a, pk, Omitted, d, Unset)
    \/ \E a \in Callers, pk \in LessonIds : lesson_detail_DELETE(a, pk)

Spec == Init /\ [][Next]_vars

\* --------------------------------------------------- the invoice life cycle
\* the callers of the invoice endpoints: management, a teacher, nobody
LifeCallers == {"m1", "t1", Anon}

NextLife ==
    \/ \E a \in LifeCallers, b \in Batches, pdf \in PdfOutcomes :
          submit_lessons_for_invoice(a, b, pdf)
    \/ \E a \in LifeCallers, st \in {Unset, "approved"}, ls \in {{}, DOMAIN lessons} :
          teacher_invoice_list_POST(a, "t1", st, ls, 0, Null)
    \/ \E a \in LifeCallers, pk \in InvoiceIds, st \in {Unset, "approved"},
          ls \in {{}, DOMAIN lessons} :
          invoice_detail_PUT(a, pk, st, ls, 0, Unset)
    \/ \E a \in LifeCallers, pk \in InvoiceIds : invoice_detail_DELETE(a, pk)
    \/ \E a \in LifeCallers, pk \in InvoiceIds : approve_teacher_invoice(a, pk)
    \/ \E a \in LifeCallers, pk \in InvoiceIds, st \in {"pending", "paid"} :
          management_update_invoice(a, pk, st, Omitted, Unset)
    \/ \E a \in LifeCallers, pk \in InvoiceIds, st \in STATUS_CHOICES \cup {"bogus"} :
          management_update_invoice_status(a, pk, st)
    \/ \E a \in LifeCallers, pk \in InvoiceIds, r \in {Omitted, Given(<<" ", " ">>), Given(<<"l">>)} :
          management_reject_invoice(a, pk, r)

SpecLife == Init /\ [][NextLife]_vars

\* ------------------------------------------------- the rejection of invoices
\* Invoices as a teacher submits or drafts them, moved through their
\* statuses by management, and rejected by any caller with any reason.
NextReject ==
    \/ \E b \in Batches : submit_lessons_for_invoice("t1", b, "sent")
    \/ teacher_invoice_list_POST("t1", "t1", Unset, DOMAIN lessons, 0, Null)
    \/ \E pk \in InvoiceIds, st \in {"approved", "paid"} :
          management_update_invoice_status("m1", pk, st)
    \/ \E a \in {"m1", "t1"}, pk \in InvoiceIds, r \in Reasons :
          management_reject_invoice(a, pk, r)

SpecReject == Init /\ [][NextReject]_vars

\* ------------------------------------------------------- recalculation
\* Invoices a teacher submits or drafts with a balance of their own, lessons
\* edited and deleted afterwards, approval, and the recalculation by any
\* caller.
NextRecalc ==
    \/ \E b \in Batches : submit_lessons_for_invoice("t1", b, "sent")
    \/ teacher_invoice_list_POST("t1", "t1", Unset, DOMAIN lessons, 5000, Null)
    \/ \E pk \in InvoiceIds : approve_teacher_invoice("m1", pk)
    \/ \E pk \in LessonIds : lesson_detail_PUT("t1", pk, Omitted, Given(150), Unset)
    \/ \E pk \in LessonIds : lesson_detail_DELETE("t1", pk)
    \/ \E a \in Callers, pk \in InvoiceIds : management_recalculate_invoice(a, pk)

SpecRecalc == Init /\ [][NextRecalc]_vars

\* C3: rate locking.  No step changes the rate of a stored lesson, except a
\* lesson_detail PUT of that lesson whose request names a rate: neither a
\* change of the teacher's hourly_rate or of the global rates, nor a later
\* save of the lesson (confirm, complete, an edit of other fields).
C3_RateLocked ==
    [][\A l \in DOMAIN lessons :
          (/\ l \in DOMAIN lessons'
           /\ ~(/\ last'.op = "lesson_detail_PUT" /\ last'.code = 200
                /\ last'.id = l /\ last'.arg # Omitted))
          => lessons'[l].rate = lessons[l].rate]_vars

\* C4: a lesson created without a rate has, right after its creation, the
\* teacher-side rate resolved from the current settings: the global online
\* teacher rate when online, the teacher's hourly_rate when in person.
C4_RatesResolvedAtCreation ==
    (/\ last.op \in {"lesson_list_POST", "request_lesson"}
     /\ last.code = 201
     /\ last.arg = Omitted)
    => lessons[last.id].rate =
          ResolveTeacherRate(lessons[last.id].lesson_type, lessons[last.id].teacher)

\* ------------------------------------------------ the cost computations
CalcRates == {5000, DefaultRate, 8001}
CalcDurations == {25, DefaultDuration, 150}

\* Stored in-person lessons of teacher t1 and student s1 with every rate and
\* duration of the two sets, on a teacher_payment invoice (1) and a
\* student_billing invoice (2) as submit_lessons_for_invoice stores them.
InitCalc ==
    /\ hourly_rate = [t \in Teachers |-> DefaultHourlyRate]
    /\ global_rates = [online_teacher_rate |-> DefaultOnlineTeacherRate,
                       online_student_rate |-> DefaultOnlineStudentRate,
                       inperson_student_rate |-> DefaultInpersonStudentRate]
    /\ \E n \in 1..MaxLessons :
          /\ lessons \in [1..n -> {NewLesson("t1", "s1", "in_person", Given(r), d,
                                             "completed", Now) :
                                      r \in CalcRates, d \in CalcDurations}]
          /\ student_rate = [l \in 1..n |-> DefaultInpersonStudentRate]
          /\ next_lesson = n + 1
    /\ LET total == StoreDecimal(SumCosts(DOMAIN lessons, lessons))
           row(type, t, st, num) ==
               [NewInvoice(type, t, st, "pending", total, total)
                   EXCEPT !.invoice_number = num, !.lessons = DOMAIN lessons]
       IN invoices = <<row("teacher_payment", "t1", Null, 1),
                       row("student_billing", Null, "s1", 2)>>
    /\ next_invoice = 3
    /\ last = Answer("init", 0, 0)
    /\ inflight = [r \in Requests |-> NoRequest]
    /\ assigned = StoredNumbers
    /\ users = InitialUsers
    /\ approved_emails = <<>>
    /\ registration_requests = <<>>
    /\ invitations = <<>>
    /\ next_token = 1
    /\ accounts_made = <<>>
    /\ post_delete_connected = TRUE

\* a call of Lesson.total_cost on a stored lesson
CallTotalCost(l) ==
    /\ l \in DOMAIN lessons
    /\ UNCHANGED <<inflight, assigned, users>>
    /\ UNCHANGED accountVars
    /\ last' = AnswerArg("total_cost", 0, l, Given(total_cost(lessons[l])))
    /\ UNCHANGED <<rateVars, lessonVars, invoiceVars>>

\* a call of Invoice.calculate_payment_balance on a stored invoice
CallCalculatePaymentBalance(pk) ==
    /\ pk \in DOMAIN invoices
    /\ UNCHANGED <<inflight, assigned, users>>
    /\ UNCHANGED accountVars
    /\ last' = AnswerArg("calculate_payment_balance", 0, pk,
                         Given(calculate_payment_balance(pk, invoices, lessons)))
    /\ UNCHANGED <<rateVars, lessonVars, invoiceVars>>

NextCalc ==
    \/ \E l \in LessonIds : CallTotalCost(l)
    \/ \E pk \in 1..2 : CallCalculatePaymentBalance(pk)

SpecCalc == InitCalc /\ [][NextCalc]_vars

\* ------------------------------------------------------ invoice numbering
\* sequences the invoices of one month can hold, around the width of the
\* format
NumberSeqs == {1, 2, 3, 9998, 9999, 10000}

\* the elements of a set of integers in ascending order
RECURSIVE Ascending(_)
Ascending(S) ==
    IF S = {} THEN <<>>
    ELSE LET least == CHOOSE n \in S : \A m \in S : n <= m
         IN <<least>> \o Ascending(S \ {least})

\* Stored teacher_payment invoices of one month whose numbers hold the
\* sequences of a subset of NumberSeqs (invoices between them deleted).
InitNumber ==
    /\ hourly_rate = [t \in Teachers |-> DefaultHourlyRate]
    /\ global_rates = [online_teacher_rate |-> DefaultOnlineTeacherRate,
                       online_student_rate |-> DefaultOnlineStudentRate,
                       inperson_student_rate |-> DefaultInpersonStudentRate]
    /\ lessons = <<>>
    /\ student_rate = <<>>
    /\ next_lesson = 1
    /\ \E S \in SUBSET NumberSeqs :
          /\ invoices = [i \in 1..Cardinality(S) |->
                            [NewInvoice("teacher_payment", "t1", Null, "pending", 0, 0)
                                EXCEPT !.invoice_number = Ascending(S)[i]]]
          /\ next_invoice = Cardinality(S) + 1
    /\ last = Answer("init", 0, 0)
    /\ inflight = [r \in Requests |-> NoRequest]
    /\ assigned = StoredNumbers
    /\ users = InitialUsers
    /\ approved_emails = <<>>
    /\ registration_requests = <<>>
    /\ invitations = <<>>
    /\ next_token = 1
    /\ accounts_made = <<>>
    /\ post_delete_connected = TRUE

\* a call of Invoice.generate_invoice_number against the stored invoices
CallGenerateInvoiceNumber ==
    /\ last.op = "init"
    /\ UNCHANGED <<inflight, assigned, users>>
    /\ UNCHANGED accountVars
    /\ last' = AnswerArg("generate_invoice_number", 0, 0,
                         Given(generate_invoice_number(invoices)))
    /\ UNCHANGED <<rateVars, lessonVars, invoiceVars>>

NextNumber == CallGenerateInvoiceNumber

SpecNumber == InitNumber /\ [][NextNumber]_vars

\* ------------------------------------------------------- the submission
\* data.get('lessons', []): a body without the key reads as the empty list
GetLessons(data) == IF "lessons" \in DOMAIN data THEN data.lessons ELSE <<>>

\* entries of two students and entries without a name, of 1 and 1.5 hours
SubmitEntries == [student : {"s1", "s2", NoName},
                  duration : {Decimal(DefaultDuration), Decimal(150)},
                  rate : {Omitted}]
SubmitBatches == UNION {[1..n -> SubmitEntries] : n \in 0..MaxBatch}
Bodies == {[month |-> "January"]} \cup {[lessons |-> b] : b \in SubmitBatches}

\* Submissions of teacher t1 and of callers who are no teacher, with every
\* outcome of the PDF/e-mail step, and invoices deleted in between.
NextSubmit ==
    \/ \E a \in {"t1", "m1", Anon}, d \in Bodies, pdf \in PdfOutcomes :
          submit_lessons_for_invoice(a, GetLessons(d), pdf)
    \/ \E pk \in InvoiceIds : invoice_detail_DELETE("t1", pk)

SpecSubmit == Init /\ [][NextSubmit]_vars

\* ------------------------------------------------- entries that are invalid
\* student_name '' : lower() and split() accept it, the student is stored
\* under the address "@temp.com"
BlankName == ""
DurationLimit == 2400

\* entries with a name, a blank name and none; durations of 1, 0, 24 and 24.01
\* hours and one that is no number; the teacher's rate and a rate of 0
InvalidEntries == [student : {"s1", BlankName, NoName},
                   duration : {Decimal(DefaultDuration), Decimal(0),
                               Decimal(DurationLimit), Decimal(DurationLimit + 1),
                               NotDecimal},
                   rate : {Omitted, Given(0)}]
InvalidBatches == UNION {[1..n -> InvalidEntries] : n \in 1..MaxBatch}

\* Submissions of teacher t1 with such entries, and lessons created and
\* edited one by one with such durations.
NextInvalid ==
    \/ \E b \in InvalidBatches : submit_lessons_for_invoice("t1", b, "sent")
    \/ \E d \in {0, DefaultDuration, DurationLimit, DurationLimit + 1} :
          lesson_list_POST("t1", "t1", "s1", "in_person", Omitted, d, "requested")
    \/ \E pk \in LessonIds, d \in {0, DurationLimit, DurationLimit + 1} :
          lesson_detail_PUT("t1", pk, Omitted, Given(d), Unset)

SpecInvalid == Init /\ [][NextInvalid]_vars

\* ------------------------------------------- the parties of an invoice
\* Invoices submitted by teacher t1, and teacher invoices posted and edited
\* by t1 and by management, who names the teacher or names none.
NextParties ==
    \/ \E b \in Batches, pdf \in PdfOutcomes : submit_lessons_for_invoice("t1", b, pdf)
    \/ \E a \in {"t1", "m1"}, t \in {"t1", Null}, bal \in {0, 5000} :
          teacher_invoice_list_POST(a, t, Unset, DOMAIN lessons, bal, Null)
    \/ \E a \in {"t1", "m1"}, pk \in InvoiceIds, nt \in {Unset, "checked"} :
          invoice_detail_PUT(a, pk, Unset, DOMAIN lessons, 0, nt)
    \/ \E pk \in InvoiceIds : invoice_detail_DELETE("m1", pk)

SpecParties == Init /\ [][NextParties]_vars

\* ------------------------------------------------------ the accounts' life

NextAccounts ==
    \/ \E a \in {"m1", "t1"}, e \in {"m1", "e1"}, ty \in {"management", "teacher"} :
          approved_email_list_POST(a, e, ty)
    \/ \E t \in 1..MaxTokens, named \in BOOLEAN : setup_account_with_invitation(t, named)
    \/ \E t \in 1..MaxTokens : InvitationExpires(t)
    \/ \E e \in {"e1", "t1"}, ty \in UserTypes : register_with_email(e, ty)
    \/ \E a \in {"m1", "t1"}, e \in {"e1"}, v \in {"approved", "rejected"} :
          review_registration_request(a, e, v)
    \/ \E a \in {"m1", "t1"}, pk \in Addresses : management_delete_user(a, pk)
    \/ \E a \in {"m1", "t1"}, pk \in {"m1", "e1"} : approved_email_delete(a, pk)
    \/ \E a \in {"m1", "t1"}, pk \in {"t1", "e1"} : teacher_detail_DELETE(a, pk)
    \/ \E a \in {"m1", "s1"}, pk \in {"s1", "t1"} : student_detail_DELETE(a, pk)

SpecAccounts == Init /\ [][NextAccounts]_vars

\* the operations that write User rows, on their own
NextUsers ==
    \/ \E e \in {"e1", "t1"}, ty \in UserTypes, ap \in {Omitted, Given(TRUE), Given(FALSE)} :
          create_user(e, ty, ap)
    \/ \E a \in {"m1", "t1"}, e \in {"e1", "t1"} : teacher_list_POST(a, e)
    \/ \E a \in {"m1", "t1"}, e \in {"e1", "t1"} : approve_teacher(a, e)
    \/ \E a \in {"m1", "t1", "e1", Anon}, pk \in {"t1", "e1"},
          ty \in {Omitted, Given("management"), Given("student")},
          ap \in {Omitted, Given(TRUE), Given(FALSE)} :
          teacher_detail_PUT(a, pk, DefaultHourlyRate, ty, ap)
    \/ \E a \in {"m1", "s1", "t1"}, pk \in {"s1", "t1"},
          ty \in {Omitted, Given("management"), Given("teacher")},
          ap \in {Omitted, Given(TRUE), Given(FALSE)} :
          student_detail_PUT(a, pk, ty, ap)

SpecUsers == Init /\ [][NextUsers]_vars

\* the statuses a wrapped view answers with
ViewStatuses == {200, 201, 404}

\* the decorators around a view, for callers of every kind: accounts are
\* created with and without approval, approved, and then make requests
NextRoles ==
    \/ \E e \in {"e1"}, ty \in UserTypes, ap \in {Omitted, Given(TRUE)} :
          create_user(e, ty, ap)
    \/ \E e \in {"e1", "t1"} : approve_teacher("m1", e)
    \/ \E a \in Addresses \cup {Anon}, roles \in SUBSET UserTypes, v \in ViewStatuses :
          role_required_view(a, roles, v)

SpecRoles == Init /\ [][NextRoles]_vars

NextOwns ==
    \/ \E e \in {"e1"}, ty \in UserTypes, ap \in {Omitted, Given(TRUE)} :
          create_user(e, ty, ap)
    \/ \E e \in {"e1", "t1"} : approve_teacher("m1", e)
    \/ \E a \in Addresses \cup {Anon}, f \in {"teacher", "student"},
          v1 \in ViewStatuses, v2 \in ViewStatuses \cup {403} :
          owns_resource_or_management_view(a, f, v1, v2)

SpecOwns == Init /\ [][NextOwns]_vars


\* ------------------------------------------------ concurrent submissions
\* batches of lessons of one student, every entry valid
OneStudentBatches == {b \in Batches : b # <<>> /\ \A i \in DOMAIN b : b[i].student = "s1"}

\* Two submissions of teacher t1 handled at the same time.
NextConc ==
    \/ \E r \in Requests, b \in OneStudentBatches : SubmitCreateLessons(r, "t1", b)
    \/ \E r \in Requests : SubmitGenerateNumber(r)
    \/ \E r \in Requests : SubmitInsertTeacherInvoice(r, "t1")
    \/ \E r \in Requests : SubmitTeacherTotal(r)
    \/ \E r \in Requests : SubmitInsertStudentInvoice(r)
    \/ \E r \in Requests : SubmitRespond(r)

SpecConc == Init /\ [][NextConc]_vars

\* ------------------------------------------- concurrent invoice requests
\* Teacher t1 hands in invoices; management user m1 approves, rejects,
\* edits and recalculates them in requests that run side by side.
NextRace ==
    \/ \E b \in OneStudentBatches : submit_lessons_for_invoice("t1", b, "sent")
    \/ \E r \in Requests, op \in StatusOps \cup EditOps, pk \in InvoiceIds :
          InvoiceLoad(r, "m1", op, pk)
    \/ \E r \in Requests : InvoiceStore(r, "m1")

SpecRace == Init /\ [][NextRace]_vars

\* ------------------------------------------------- redeeming invitations
\* Management user m1 invites e1 (and deletes the account or the approved
\* address again); the invitation is redeemed in requests that run side by
\* side; invitations expire.
NextInvite ==
    \/ \E ty \in {"teacher", "student"} : approved_email_list_POST("m1", "e1", ty)
    \/ \E t \in 1..MaxTokens : InvitationExpires(t)
    \/ \E r \in Requests, t \in 1..MaxTokens, named \in BOOLEAN : SetupCheck(r, t, named)
    \/ \E r \in Requests : SetupCreateUser(r)
    \/ \E r \in Requests : SetupApprove(r)
    \/ \E r \in Requests : SetupMarkUsed(r)
    \/ management_delete_user("m1", "e1")
    \/ approved_email_delete("m1", "e1")

SpecInvite == Init /\ [][NextInvite]_vars

\* ---------------------------------------------------------------- claims
\* what the data model says an invoice sums, in 1/10000 dollars: over its
\* lessons, teacher rate x duration for a teacher_payment invoice and
\* student rate x duration for a student_billing invoice
ContributionSum(pk) ==
    SumOver(invoices[pk].lessons,
            [l \in invoices[pk].lessons |->
                (IF invoices[pk].invoice_type = "teacher_payment"
                 THEN lessons[l].rate ELSE student_rate[l]) * lessons[l].duration])

\* C1: in every reachable state, the payment_balance of each stored invoice
\* equals the sum over its currently associated lessons of teacher rate x
\* duration (teacher_payment) or student rate x duration (student_billing),
\* and so 0 when it has no lesson.
C1_BalanceIsLessonSum ==
    \A pk \in DOMAIN invoices : invoices[pk].payment_balance * 100 = ContributionSum(pk)

\* C2: calculate_payment_balance returns the sum over the invoice's lessons
\* of teacher rate x duration for a teacher_payment invoice and of student
\* rate x duration for a student_billing invoice (50 and 100 for one lesson
\* at teacher rate 50, student rate 100, duration 1).
C2_BalanceByInvoiceType ==
    last.op = "calculate_payment_balance"
    => Val(last.arg).units = ContributionSum(last.id)

\* C5: total_cost() of a lesson is rate x duration as an exact decimal
\* value: a Decimal, not a float.
C5_TotalCostExactDecimal ==
    last.op = "total_cost"
    => /\ Val(last.arg).type = "Decimal"
       /\ Val(last.arg).exact
       /\ Val(last.arg).units = lessons[last.id].rate * lessons[last.id].duration

\* C6: an edit of an invoice whose status is approved, paid or rejected
\* fails and leaves the invoice unchanged, through management_update_invoice
\* and through the invoice_detail PUT alike.
C6_LockedInvoiceNotEdited ==
    [][\A pk \in DOMAIN invoices :
          (/\ last'.op \in {"management_update_invoice", "invoice_detail_PUT"}
           /\ last'.id = pk
           /\ invoices[pk].status \in {"approved", "paid", "rejected"})
          => (last'.code >= 400 /\ invoices' = invoices)]_vars

\* C7: every change of the status of an invoice is one of the legal
\* transitions: draft -> pending, pending -> approved, pending or
\* draft -> rejected, approved -> paid, and non-terminal -> overdue.
LegalTransitions ==
    {<<"draft", "pending">>, <<"pending", "approved">>, <<"pending", "rejected">>,
     <<"draft", "rejected">>, <<"approved", "paid">>}
    \cup {<<st, "overdue">> : st \in {"draft", "pending", "approved"}}

C7_LegalTransitionsOnly ==
    [][\A pk \in DOMAIN invoices \cap DOMAIN invoices' :
          invoices'[pk].status # invoices[pk].status
          => <<invoices[pk].status, invoices'[pk].status>> \in LegalTransitions]_vars

\* C8: approve_teacher_invoice on an invoice that is not pending fails and
\* leaves its status, approved_by and approved_at unchanged.
C8_ApproveOnlyFromPending ==
    [][\A pk \in DOMAIN invoices :
          (/\ last'.op = "approve_teacher_invoice"
           /\ last'.id = pk
           /\ invoices[pk].status # "pending")
          => /\ last'.code >= 400
             /\ invoices'[pk].status = invoices[pk].status
             /\ invoices'[pk].approved_by = invoices[pk].approved_by
             /\ invoices'[pk].approved_at = invoices[pk].approved_at]_vars

\* C9: management_reject_invoice on a stored invoice fails and leaves every
\* invoice unchanged when the reason is missing or blank or the status is
\* neither pending nor draft; otherwise it answers 200, sets the status to
\* rejected and records rejected_by (the management caller), rejected_at and
\* the reason without its surrounding whitespace, leaving the other invoices
\* alone.
C9_RejectContract ==
    [][last'.op = "management_reject_invoice"
       => LET pk == last'.id
              missing == last'.arg = Omitted
              text == IF missing THEN <<>> ELSE Val(last'.arg)
              blank == \A i \in DOMAIN text : text[i] = " "
          IN IF missing \/ blank \/ invoices[pk].status \notin {"pending", "draft"}
             THEN last'.code >= 400 /\ invoices' = invoices
             ELSE /\ last'.code = 200
                  /\ invoices'[pk].status = "rejected"
                  /\ invoices'[pk].rejected_by \in Management
                  /\ invoices'[pk].rejected_at = Now
                  /\ invoices'[pk].rejection_reason = Strip(text)
                  /\ invoices'[pk].rejection_reason # <<>>
                  /\ \A o \in DOMAIN invoices \ {pk} : invoices'[o] = invoices[o]]_vars

\* C9 witness: an invoice has just been rejected with a reason that carried
\* surrounding whitespace
C9_Witness ==
    /\ last.op = "management_reject_invoice"
    /\ last.code = 200
    /\ last.arg = Given(<<" ", "l", " ">>)
    /\ invoices[last.id].status = "rejected"
    /\ invoices[last.id].rejection_reason = <<"l">>
    /\ invoices[last.id].rejected_by = "m1"

\* C10: in every reachable state an approved invoice has approved_at set
\* and approved_by set to a management user.
C10_ApprovedHasApproval ==
    \A pk \in DOMAIN invoices :
        invoices[pk].status = "approved"
        => (invoices[pk].approved_at # Null /\ invoices[pk].approved_by \in Management)

\* C11: once an invoice is approved, paid or rejected, no step changes its
\* stored payment_balance or total_amount.
C11_LockedBalanceFrozen ==
    [][\A pk \in DOMAIN invoices \cap DOMAIN invoices' :
          invoices[pk].status \in {"approved", "paid", "rejected"}
          => /\ invoices'[pk].payment_balance = invoices[pk].payment_balance
             /\ invoices'[pk].total_amount = invoices[pk].total_amount]_vars

C13_NextSequenceIsHighestPlusOne ==
    last.op = "generate_invoice_number"
    => LET seqs == {invoices[i].invoice_number : i \in DOMAIN invoices}
       IN IF seqs = {} THEN Val(last.arg) = 1
          ELSE /\ Val(last.arg) - 1 \in seqs
               /\ \A n \in seqs : n < Val(last.arg)

\* C14: when two submissions create invoices of the same month at the same
\* time, both succeed and the stored invoices have distinct numbers.
C14_ConcurrentCreationsSucceed ==
    /\ \A r \in Requests : inflight[r].pc = "done" => inflight[r].code = 201
    /\ \A i, j \in DOMAIN invoices :
          i # j => invoices[i].invoice_number # invoices[j].invoice_number

\* C15: within the month, each newly stored invoice gets a sequence strictly
\* greater than every sequence stored earlier, also when the invoices that
\* held them have been deleted since; no sequence is handed out twice.
C15_NumbersNeverReused ==
    [][LET new == DOMAIN invoices' \ DOMAIN invoices
       IN /\ \A pk \in new : \A n \in assigned : invoices'[pk].invoice_number > n
          /\ \A i, j \in new :
                i # j => invoices'[i].invoice_number # invoices'[j].invoice_number]_vars

\* C16: a submission of a teacher whose lessons list is empty or missing
\* is answered 400 'No lessons provided' and stores no student, no lesson and
\* no invoice; a submission answered 201 has stored lessons.
C16_NoLessonsProvided ==
    [][/\ (\E d \in Bodies, pdf \in PdfOutcomes :
              /\ GetLessons(d) = <<>>
              /\ submit_lessons_for_invoice("t1", GetLessons(d), pdf))
          => /\ last'.op = "submit_lessons_for_invoice"
             /\ last'.code = 400
             /\ last'.arg = Given("No lessons provided")
             /\ UNCHANGED <<users, lessons, next_lesson, invoices, next_invoice>>
       /\ (last'.op = "submit_lessons_for_invoice" /\ last'.code = 201)
          => DOMAIN lessons' # DOMAIN lessons]_vars

\* a submission without lessons refused while lessons and invoices are stored
C16_Witness ==
    /\ last.op = "submit_lessons_for_invoice"
    /\ last.code = 400
    /\ DOMAIN lessons # {}
    /\ DOMAIN invoices # {}

\* a stored lesson whose student name, duration and rate are all valid
ValidLesson(l) ==
    /\ l.student # BlankName
    /\ l.duration > 0 /\ l.duration <= DurationLimit
    /\ l.rate > 0

\* C17: a submission is all or nothing.  One that is not answered 201 leaves
\* no student, lesson or invoice behind, and one that is answered 201 has
\* stored only valid entries (an invalid entry aborts the whole batch).
C17_SubmissionAtomic ==
    [][last'.op = "submit_lessons_for_invoice"
       => /\ last'.code # 201
             => UNCHANGED <<users, lessons, next_lesson, invoices, next_invoice>>
          /\ last'.code = 201
             => \A l \in DOMAIN lessons' \ DOMAIN lessons : ValidLesson(lessons'[l])]_vars

\* C18: no stored lesson has a duration of 0 hours or less, or of more than
\* 24 hours.
C18_DurationInRange ==
    \A l \in DOMAIN lessons :
        lessons[l].duration > 0 /\ lessons[l].duration <= DurationLimit

\* C19: a submission answered 201 has created exactly one teacher_payment
\* invoice, pending and holding all the lessons it created, and for each
\* distinct student of these lessons exactly one student_billing invoice,
\* pending and holding exactly that student's lessons; nothing else.
C19_InvoicesOfSubmission ==
    [][(last'.op = "submit_lessons_for_invoice" /\ last'.code = 201)
       => LET newL == DOMAIN lessons' \ DOMAIN lessons
              newI == DOMAIN invoices' \ DOMAIN invoices
              tp == {i \in newI : invoices'[i].invoice_type = "teacher_payment"}
              sb == {i \in newI : invoices'[i].invoice_type = "student_billing"}
              sts == {lessons'[l].student : l \in newL}
          IN /\ newI = tp \cup sb
             /\ Cardinality(tp) = 1
             /\ \A i \in tp : /\ invoices'[i].status = "pending"
                              /\ invoices'[i].lessons = newL
             /\ \A st \in sts : Cardinality({i \in sb : invoices'[i].student = st}) = 1
             /\ \A i \in sb :
                   /\ invoices'[i].status = "pending"
                   /\ invoices'[i].student \in sts
                   /\ invoices'[i].lessons =
                         {l \in newL : lessons'[l].student = invoices'[i].student}
             /\ \A i \in DOMAIN invoices : invoices'[i] = invoices[i]]_vars

\* a submission for two students answered 201: three invoices
C19_Witness ==
    /\ last.op = "submit_lessons_for_invoice"
    /\ last.code = 201
    /\ \E i, j \in DOMAIN invoices :
          /\ invoices[i].invoice_type = "student_billing"
          /\ invoices[j].invoice_type = "student_billing"
          /\ invoices[i].student = "s1"
          /\ invoices[j].student = "s2"
          /\ invoices[i].lessons # invoices[j].lessons

\* C20: whatever the PDF/e-mail step does (sent, a False result, an
\* exception), it runs on a teacher invoice that is stored with its lessons,
\* and the submission is answered 201 with these rows kept.
C20_PdfFailureHarmless ==
    [][(last'.op = "submit_lessons_for_invoice" /\ last'.arg \in {Given(p) : p \in PdfOutcomes})
       => /\ last'.code = 201
          /\ last'.id \in DOMAIN invoices' \ DOMAIN invoices
          /\ invoices'[last'.id].invoice_type = "teacher_payment"
          /\ invoices'[last'.id].lessons # {}
          /\ invoices'[last'.id].lessons = DOMAIN lessons' \ DOMAIN lessons]_vars

\* a submission whose PDF/e-mail step raised, answered 201
C20_Witness ==
    /\ last.op = "submit_lessons_for_invoice"
    /\ last.arg = Given("raised")
    /\ last.code = 201
    /\ last.id \in DOMAIN invoices
    /\ invoices[last.id].lessons # {}

\* C21: every stored invoice names exactly one party, the one of its type:
\* a teacher_payment invoice a teacher and no student, a student_billing
\* invoice a student and no teacher.
C21_OnePartyMatchingType ==
    \A pk \in DOMAIN invoices :
        /\ invoices[pk].invoice_type = "teacher_payment"
           => invoices[pk].teacher # Null /\ invoices[pk].student = Null
        /\ invoices[pk].invoice_type = "student_billing"
           => invoices[pk].student # Null /\ invoices[pk].teacher = Null

\* the status changes the data model allows a lesson
LessonTransitions ==
    {<<"requested", "confirmed">>, <<"confirmed", "completed">>,
     <<"requested", "cancelled">>, <<"confirmed", "cancelled">>}

\* C22: the status of a stored lesson changes only along requested ->
\* confirmed -> completed (with completed_date set) or from requested or
\* confirmed to cancelled; a completed or cancelled lesson keeps its status.
C22_LessonStatusMoves ==
    [][\A l \in DOMAIN lessons \cap DOMAIN lessons' :
          lessons'[l].status # lessons[l].status
          => /\ <<lessons[l].status, lessons'[l].status>> \in LessonTransitions
             /\ lessons'[l].status = "completed" => lessons'[l].completed_date # Null]_vars

\* C23: every stored user of type management is approved, staff and
\* superuser; and a teacher or student that create_user has just stored
\* without an approval flag is stored unapproved.
C23_ManagementPrivileged ==
    /\ \A u \in DOMAIN users :
          users[u].user_type = "management"
          => users[u].is_approved /\ users[u].is_staff /\ users[u].is_superuser
    /\ \A e \in Addresses :
          (/\ last.op = "create_user"
           /\ last.code = 201
           /\ last.arg = <<e, Omitted>>
           /\ users[e].user_type \in {"teacher", "student"})
          => ~users[e].is_approved

\* a teacher has been turned into a management user, and a teacher has then
\* been created without an approval flag
C23_Witness ==
    /\ \E u \in DOMAIN users \ Management : users[u].user_type = "management"
    /\ last.op = "create_user"
    /\ last.code = 201
    /\ last.arg = <<"e1", Omitted>>
    /\ users["e1"].user_type = "teacher"

\* C24: a view wrapped in role_required has run exactly when the caller
\* is authenticated, has one of the allowed roles and is management or
\* approved; otherwise the view body has not run and the answer is 401 for
\* an unauthenticated caller and 403 for the others.
C24_RoleRequired ==
    last.op = "role_required_view"
    => LET actor == last.arg[1]
           allowed_roles == last.arg[2]
           runs == last.arg[3]
       IN IF /\ actor \in DOMAIN users
             /\ users[actor].user_type \in allowed_roles
             /\ users[actor].user_type = "management" \/ users[actor].is_approved
          THEN runs = 1
          ELSE /\ runs = 0
               /\ last.code = IF actor \in DOMAIN users THEN 403 ELSE 401

\* an unapproved teacher has asked for a view that allows teachers
C24_Witness ==
    /\ last.op = "role_required_view"
    /\ last.arg[1] = "e1"
    /\ "e1" \in DOMAIN users
    /\ users["e1"].user_type = "teacher"
    /\ ~users["e1"].is_approved
    /\ "teacher" \in last.arg[2]
    /\ last.code = 403

\* C27: a view wrapped in owns_resource_or_management has run exactly once
\* when the request is permitted (an approved caller who is management or
\* whose role is the resource field), and has not run at all when the
\* caller passes the role check but is answered 403 'Access denied'.
C27_ViewRunsOnce ==
    last.op = "owns_resource_or_management_view"
    => LET actor == last.arg[1]
           resource_field == last.arg[2]
           runs == last.arg[3]
           admitted == /\ actor \in DOMAIN users
                       /\ users[actor].user_type = "management" \/ users[actor].is_approved
           owner == /\ admitted
                    /\ users[actor].user_type \in {"management", resource_field}
       IN /\ owner => runs = 1
          /\ admitted /\ ~owner => runs = 0

DeleteOps ==
    {"management_delete_user", "approved_email_delete", "teacher_detail_DELETE",
     "student_detail_DELETE"}

\* C25: a deletion of a User or of an ApprovedEmail that a view has started
\* completes (it is never answered 500 for a recursion without bound), it
\* leaves no ApprovedEmail, no UserRegistrationRequest and no User of the
\* deleted record's address, and the post_delete receiver of User is
\* connected whenever no deletion is going on.
C25_DeletionCompletes ==
    /\ post_delete_connected
    /\ (last.op \in DeleteOps /\ last.code \in {200, 204, 500})
       => /\ last.code # 500
          /\ last.arg[1] \notin DOMAIN users
          /\ last.arg[1] \notin DOMAIN approved_emails
          /\ last.arg[1] \notin DOMAIN registration_requests

\* C28: no request deletes a management user: a stored user of type
\* management is still stored after every step.
C28_ManagementNeverDeleted ==
    [][\A u \in DOMAIN users :
          users[u].user_type = "management" => u \in DOMAIN users']_vars

\* C29: a step that turns a stored user into a management user, or a stored
\* unapproved user into an approved one, is the request of a management
\* user; no request of a teacher or a student raises anybody's privileges.
C29_NoSelfPromotion ==
    [][(\E u \in DOMAIN users \cap DOMAIN users' :
           \/ users[u].user_type # "management" /\ users'[u].user_type = "management"
           \/ ~users[u].is_approved /\ users'[u].is_approved)
       => /\ last'.op \in {"teacher_detail_PUT", "student_detail_PUT", "approve_teacher"}
          /\ user_type(last'.arg[2]) = "management"]_vars

\* C26: requests on one invoice that run side by side leave what some
\* sequential order of them leaves; in particular the save of a request
\* that edits or recalculates the invoice never changes the status another
\* request has committed meanwhile: every step that changes the stored
\* status of an invoice is the save of an approval or of a rejection.
C26_NoLostUpdate ==
    [][\A pk \in DOMAIN invoices \cap DOMAIN invoices' :
          invoices'[pk].status # invoices[pk].status => last'.op \in StatusOps]_vars

\* C30: the redemptions of one invitation token create at most one user
\* account between them, whether they come one after the other or side by
\* side; a token that is used stays used as long as it is stored; and a
\* redemption that finds its token used or expired creates no user.
C30_OneAccountPerToken ==
    [][/\ \A t \in DOMAIN accounts_made' : accounts_made'[t] <= 1
       /\ \A t \in DOMAIN invitations \cap DOMAIN invitations' :
             invitations[t].is_used => invitations'[t].is_used
       /\ \A r \in Requests :
             (/\ inflight[r].pc \in {"idle", "done"}
              /\ inflight'[r].pc = "setup_create")
             => is_valid(inflight'[r].token)]_vars

====
